---- MODULE Spec2Model ----
(***************************************************************************)
(* OneBot 12 bridge: the protocol client (ws-client.ts, here               *)
(* src/unnamed/part_002) and the monitor's event callback (monitor.ts).    *)
(*                                                                         *)
(* The client is one JavaScript object driven by event-loop callbacks:     *)
(* every action below is one callback or one public method run to          *)
(* completion.  Sockets live in slots; a slot whose socket has emitted     *)
(* 'close' and is no longer referenced by this.ws is reused.               *)
(***************************************************************************)
EXTENDS Integers, FiniteSets, Sequences, TLC

\* ---------------------------------------------------------------- bounds
MaxSockets == 2      \* sockets alive at the same time
MaxActions == 2      \* sendAction calls that pass the connectivity check

SocketIds == 1..MaxSockets
Echoes == 0..(MaxActions - 1)
\* the one action the repository sends (outbound.ts)
ActionNames == {"send_message"}

NoSocket == 0        \* this.ws === null
NotAString == -2     \* frame field echo absent or not a string
ForeignEcho == -1    \* a string this client never issued
NoTimer == "none"

VARIABLES
    aborted,         \* abortSignal.aborted (the monitor always passes a signal)
    listening,       \* an 'abort' listener calling stop() is registered
    sock,            \* readyState of the socket in each slot
    ws,              \* this.ws
    stopped,         \* this.stopped
    reconnectTimer,  \* this.reconnectTimer !== null
    liveTimers,      \* reconnect timeouts set and neither fired nor cleared
    actionCounter,   \* this.actionCounter
    pending,         \* this.pending: echo -> slot the request was sent on (0: no entry)
    timeouts,        \* live action timeouts: echo -> action named by the callback
    frames,          \* request frames handed to ws.send, per echo
    outcome,         \* how the promise of each sendAction call settled
    settles,         \* resolve/reject invocations per call (capped at 2)
    last,            \* the handler that ran last and what it did
    clientLogs,      \* URLs written to the client's logger
    arrived,         \* event frames in the order the sockets delivered them
    delivered,       \* event frames in the order onEvent was called with them
    \* the gateway (channel.ts) and monitorOneBotProvider around the client
    wsUrl,           \* account.wsUrl
    accessToken,     \* account.accessToken ("": none)
    gatewayLogs,     \* URLs written to the gateway's log
    monitor,         \* where the monitorOneBotProvider call stands
    registered,      \* the client registry holds this account's client
    traceCap,        \* how many event frames arrived/delivered keep
    secondMonitor,   \* a second monitorOneBotProvider call for the same account
    \* the monitor (monitor.ts): one account's configuration and its handlers
    dmPolicy,        \* account.config.dmPolicy
    groupPolicy,     \* account.config.groupPolicy
    groups,          \* account.config.groups: group key -> its entry
    allowFrom,       \* account.config.allowFrom
    groupAllowFrom,  \* account.config.groupAllowFrom
    accountSelfId,   \* account.selfId ("": none)
    requireMention,  \* account.requireMention ("unset", TRUE or FALSE)
    pairingStore,    \* senders with a pairing request in the host's store
    nEvents,         \* events handed to onEvent so far
    eventCap,        \* how many events the callback is given
    targetCall,      \* the address text a caller of targets.ts is working on
    handlers,        \* per event: where its handleOneBotMessage call stands
    effects,         \* per event: session records, dispatches and sends made
    lastInboundAt    \* per event: its call stamped the status sink's lastInboundAt

clientVars == <<aborted, listening, sock, ws, stopped, reconnectTimer,
                liveTimers, actionCounter, pending, timeouts, frames, outcome,
                settles, last>>
ghostVars == <<clientLogs, arrived, delivered>>
configVars == <<dmPolicy, groupPolicy, groups, allowFrom, groupAllowFrom,
                accountSelfId, requireMention, eventCap, targetCall>>
pipeVars == <<configVars, pairingStore, nEvents, handlers, effects, lastInboundAt>>
hostVars == <<wsUrl, accessToken, gatewayLogs, monitor, registered, traceCap,
              secondMonitor>>
outerVars == <<pipeVars, hostVars>>
vars == <<clientVars, ghostVars, pipeVars, hostVars>>

Min(a, b) == IF a < b THEN a ELSE b

Live(s) == sock[s] \in {"connecting", "open", "closing"}
FreeSlots == {s \in SocketIds : ~Live(s)}
PendingSet == {e \in Echoes : pending[e] # NoSocket}
TimerSet == {e \in Echoes : timeouts[e] # NoTimer}

\* mutant: the readyState test is left out of the connectivity check
IsOpen_HandleOnly == ws # NoSocket

\* isOpen(): this.ws?.readyState === WebSocket.OPEN
IsOpen == ws # NoSocket /\ sock[ws] = "open"

\* what the handler that just ran did; arg is the echo it was about (-2: none)
\* and payload is what it resolved the call's promise with, if it did
NoPayload == [none |-> TRUE]
DidWith(op, out, arg, payload) ==
    last' = [op |-> op, out |-> out, arg |-> arg, payload |-> payload]
DidOn(op, out, arg) == DidWith(op, out, arg, NoPayload)
Did(op, out) == DidOn(op, out, NotAString)
\* the event loop is between two handlers
Quiet == [op |-> "-", out |-> "-", arg |-> NotAString, payload |-> NoPayload]
Ready == last = Quiet

\* ------------------------------------------------------------- helpers
\* A settlement: resolved with the response, or rejected with an Error whose
\* message is one of the four the client builds (the timeout one names the action).
Err(kind, action) == [kind |-> kind, action |-> action]
Unsettled == Err("none", "")
Resolved == Err("resolved", "")

\* entry.reject / entry.resolve on the calls in D: a promise keeps its first
\* settlement, every invocation is counted.
SettledOutcome(D, kind) ==
    [e \in Echoes |-> IF e \in D /\ settles[e] = 0 THEN kind ELSE outcome[e]]

SettledCount(D) ==
    [e \in Echoes |-> IF e \in D THEN Min(settles[e] + 1, 2) ELSE settles[e]]

\* rejectAllPending(error)
RejectAllPending(kind) ==
    /\ timeouts' = [e \in Echoes |-> IF e \in PendingSet THEN NoTimer ELSE timeouts[e]]
    /\ outcome' = SettledOutcome(PendingSet, kind)
    /\ settles' = SettledCount(PendingSet)
    /\ pending' = [e \in Echoes |-> NoSocket]

\* mutant: a timer is set without looking at the one already outstanding
ScheduleReconnect_NoTimerCheck ==
    IF stopped
    THEN UNCHANGED <<reconnectTimer, liveTimers>>
    ELSE /\ reconnectTimer' = TRUE
         /\ liveTimers' = liveTimers + 1

\* scheduleReconnect()
ScheduleReconnect ==
    IF reconnectTimer \/ stopped
    THEN UNCHANGED <<reconnectTimer, liveTimers>>
    ELSE /\ reconnectTimer' = TRUE
         /\ liveTimers' = liveTimers + 1

\* clearReconnectTimer()
ClearReconnectTimer ==
    IF reconnectTimer
    THEN /\ reconnectTimer' = FALSE
         /\ liveTimers' = IF liveTimers > 0 THEN liveTimers - 1 ELSE 0
    ELSE UNCHANGED <<reconnectTimer, liveTimers>>

\* The slot table after this.ws stops referring to slot old: a socket that
\* has already emitted 'close' is gone once nothing refers to it.
Release(table, old) ==
    IF old # NoSocket /\ table[old] = "closed"
    THEN [table EXCEPT ![old] = "none"]
    ELSE table

\* mutant: the socket is closed but the handle is kept
CloseSocket_KeepsHandle ==
    IF ws = NoSocket
    THEN UNCHANGED <<ws, sock>>
    ELSE /\ ws' = ws
         /\ sock' = [sock EXCEPT ![ws] =
                        IF @ \in {"connecting", "open"} THEN "closing" ELSE @]

\* closeSocket(): ws.close() starts the closing handshake; 'close' follows.
CloseSocket ==
    IF ws = NoSocket
    THEN UNCHANGED <<ws, sock>>
    ELSE /\ ws' = NoSocket
         /\ sock' = Release([sock EXCEPT ![ws] =
                        IF @ \in {"connecting", "open"} THEN "closing" ELSE @], ws)

\* A URL as far as the access token goes: whether new URL() parses the text,
\* and the value its access_token query parameter has in the text ("": the
\* text has no such parameter).
Url(ok, token) == [ok |-> ok, token |-> token]
\* account.wsUrl is missing or blank
NoUrl == [none |-> TRUE]
\* account.configured
Configured == wsUrl # NoUrl
Redacted == "***"

\* withAccessToken(url, token)
WithAccessToken(url, token) ==
    IF token = "" THEN url
    ELSE IF ~url.ok THEN url
    ELSE IF url.token # "" THEN url
    ELSE [url EXCEPT !.token = token]

\* sanitizeUrl(url): searchParams.set on a parsed URL, the regular expression
\* /access_token=[^&]+/g on a text that does not parse
SanitizeUrl(url) ==
    IF url.ok
    THEN IF url.token # "" THEN [url EXCEPT !.token = Redacted] ELSE url
    ELSE IF url.token # "" THEN [url EXCEPT !.token = Redacted] ELSE url

\* mutant: connect() does not look at the stop flag
Connect_IgnoresStopped ==
    /\ FreeSlots # {}
    /\ clientLogs' = clientLogs \cup {SanitizeUrl(WithAccessToken(wsUrl, accessToken))}
    /\ LET s == CHOOSE x \in FreeSlots : \A y \in FreeSlots : x <= y
       IN /\ ws' = s
          /\ sock' = [sock EXCEPT ![s] = "connecting"]
    /\ listening' = TRUE

\* connect(): returns at once when stopped; else logs the sanitized URL,
\* creates a socket, stores it in this.ws and registers the abort listener.
\* new WebSocket() throws on a text that is not a URL: nothing after the log
\* line happens then.
Connect ==
    IF stopped
    THEN UNCHANGED <<ws, sock, listening, clientLogs>>
    ELSE /\ clientLogs' = clientLogs \cup {SanitizeUrl(WithAccessToken(wsUrl, accessToken))}
         /\ IF ~wsUrl.ok
            THEN UNCHANGED <<ws, sock, listening>>
            ELSE /\ FreeSlots # {}
                 /\ LET s == CHOOSE x \in FreeSlots : \A y \in FreeSlots : x <= y
                    IN /\ ws' = s
                       /\ sock' = [Release(sock, IF ws = s THEN NoSocket ELSE ws)
                                     EXCEPT ![s] = "connecting"]
                 /\ listening' = TRUE

\* stop()
StopBody ==
    /\ stopped' = TRUE
    /\ ClearReconnectTimer
    /\ CloseSocket
    /\ RejectAllPending(Err("stopped", ""))

\* ------------------------------------------------------------- actions
ClientInit ==
    /\ aborted = FALSE
    /\ listening = FALSE
    /\ sock = [s \in SocketIds |-> "none"]
    /\ ws = NoSocket
    /\ stopped = FALSE
    /\ reconnectTimer = FALSE
    /\ liveTimers = 0
    /\ actionCounter = 0
    /\ pending = [e \in Echoes |-> NoSocket]
    /\ timeouts = [e \in Echoes |-> NoTimer]
    /\ frames = [e \in Echoes |-> 0]
    /\ outcome = [e \in Echoes |-> Unsettled]
    /\ settles = [e \in Echoes |-> 0]
    /\ last = Quiet
    /\ clientLogs = {}
    /\ arrived = <<>>
    /\ delivered = <<>>

\* the body of start()
StartBody ==
    /\ IF aborted
       THEN /\ stopped' = TRUE
            /\ UNCHANGED <<ws, sock, listening, clientLogs>>
       ELSE /\ stopped \/ Cardinality(FreeSlots) > liveTimers
            /\ Connect
            /\ UNCHANGED stopped
    /\ Did("start", "-")
    /\ UNCHANGED <<aborted, reconnectTimer, liveTimers, actionCounter,
                   pending, timeouts, frames, outcome, settles>>

\* start()
Start ==
    /\ Ready
    /\ UNCHANGED <<outerVars, arrived, delivered>>
    /\ StartBody

\* stop() called by the owner
Stop ==
    /\ Ready
    /\ UNCHANGED <<outerVars, ghostVars>>
    /\ StopBody
    /\ Did("stop", IF stopped THEN "again" ELSE "first")
    /\ UNCHANGED <<aborted, listening, actionCounter, frames>>

\* the abort signal fires; the listener registered by connect() calls stop()
Abort ==
    /\ Ready
    /\ UNCHANGED <<outerVars, ghostVars>>
    /\ ~aborted
    /\ aborted' = TRUE
    /\ IF listening
       THEN StopBody
       ELSE UNCHANGED <<stopped, reconnectTimer, liveTimers, ws, sock, pending,
                        timeouts, outcome, settles>>
    /\ Did("abort", IF listening THEN "stop" ELSE "-")
    /\ UNCHANGED <<listening, actionCounter, frames>>

\* the body of sendAction(action, params, options); throws: ws.send raises
SendActionBody(a, throws) ==
    /\ IF ~IsOpen
       THEN /\ ~throws
            /\ Did("send", "not_connected")
            /\ UNCHANGED <<actionCounter, pending, timeouts, frames, outcome, settles>>
       ELSE /\ actionCounter < MaxActions
            /\ LET echo == actionCounter
               IN /\ actionCounter' = actionCounter + 1
                  /\ IF throws
                     THEN /\ UNCHANGED <<pending, timeouts, frames>>
                          /\ outcome' = SettledOutcome({echo}, Err("send_failed", ""))
                          /\ settles' = SettledCount({echo})
                          /\ Did("send", "send_threw")
                     ELSE /\ pending' = [pending EXCEPT ![echo] = ws]
                          /\ timeouts' = [timeouts EXCEPT ![echo] = a]
                          /\ frames' = [frames EXCEPT ![echo] = @ + 1]
                          /\ UNCHANGED <<outcome, settles>>
                          /\ Did("send", "sent")
    /\ UNCHANGED <<aborted, listening, sock, ws, stopped, reconnectTimer,
                   liveTimers>>

\* sendAction called by a holder of the client
SendAction(a, throws) ==
    /\ Ready
    /\ UNCHANGED <<outerVars, ghostVars>>
    /\ SendActionBody(a, throws)

\* mutant: the timeout callback rejects but leaves the entry in the map
ActionTimeout_KeepsEntry(e) ==
    /\ Ready
    /\ UNCHANGED <<outerVars, ghostVars>>
    /\ timeouts[e] # NoTimer
    /\ timeouts' = [timeouts EXCEPT ![e] = NoTimer]
    /\ outcome' = SettledOutcome({e}, Err("timeout", timeouts[e]))
    /\ settles' = SettledCount({e})
    /\ DidOn("timeout", "-", e)
    /\ UNCHANGED <<aborted, listening, sock, ws, stopped, reconnectTimer,
                   liveTimers, actionCounter, frames, pending>>

\* the timeout callback of sendAction
ActionTimeout(e) ==
    /\ Ready
    /\ UNCHANGED <<outerVars, ghostVars>>
    /\ timeouts[e] # NoTimer
    /\ timeouts' = [timeouts EXCEPT ![e] = NoTimer]
    /\ pending' = [pending EXCEPT ![e] = NoSocket]
    /\ outcome' = SettledOutcome({e}, Err("timeout", timeouts[e]))
    /\ settles' = SettledCount({e})
    /\ DidOn("timeout", "-", e)
    /\ UNCHANGED <<aborted, listening, sock, ws, stopped, reconnectTimer,
                   liveTimers, actionCounter, frames>>

\* ws.on("open")
SocketOpen(s) ==
    /\ Ready
    /\ UNCHANGED <<outerVars, ghostVars>>
    /\ sock[s] = "connecting"
    /\ sock' = [sock EXCEPT ![s] = "open"]
    /\ Did("open", "onOpen")
    /\ UNCHANGED <<aborted, listening, ws, stopped, reconnectTimer,
                   liveTimers, actionCounter, pending, timeouts, frames, outcome,
                   settles>>

\* Inbound frames: the text does not parse (json = FALSE), parses to a
\* non-object (obj = FALSE), or parses to an object whose fields status, echo,
\* type and detail_type are strings or not.  Responses come for every token,
\* issued or not, with and without the two event fields; the other objects
\* have at most one of status and echo a string.
Frame(j, o, st, e, ty, d) ==
    [json |-> j, obj |-> o, status |-> st, echo |-> e, type |-> ty, detail |-> d]

Frames ==
    {Frame(FALSE, FALSE, FALSE, NotAString, FALSE, FALSE),
     Frame(TRUE, FALSE, FALSE, NotAString, FALSE, FALSE)}
    \cup {Frame(TRUE, TRUE, TRUE, e, t, t) : e \in Echoes \cup {ForeignEcho}, t \in BOOLEAN}
    \cup {Frame(TRUE, TRUE, se[1], se[2], t[1], t[2]) :
             se \in {<<FALSE, NotAString>>, <<TRUE, NotAString>>, <<FALSE, ForeignEcho>>},
             t \in {<<TRUE, TRUE>>, <<TRUE, FALSE>>, <<FALSE, FALSE>>}}

\* an event frame: JSON for an object with string type and detail_type that
\* is not an action response
EventFrame(f) ==
    f.json /\ f.obj /\ f.type /\ f.detail /\ ~(f.status /\ f.echo # NotAString)

\* a trace with one more frame; it keeps the first traceCap frames only
Traced(trace, f) == IF Len(trace) < traceCap THEN Append(trace, f) ELSE trace

\* mutant: the event test is made before the response test
Classify_EventFirst(f) ==
    IF ~f.obj THEN "dropped"
    ELSE IF f.type /\ f.detail THEN "event"
    ELSE IF f.status /\ f.echo # NotAString THEN "response"
    ELSE "dropped"

\* handlePayload's two shape tests, in the order the code makes them
Classify(f) ==
    IF ~f.obj THEN "dropped"
    ELSE IF f.status /\ f.echo # NotAString THEN "response"
    ELSE IF f.type /\ f.detail THEN "event"
    ELSE "dropped"

\* mutant: a matched response resolves the entry without clearing its timeout
HandlePayload_KeepsTimer(f) ==
    LET class == Classify(f)
        hit == class = "response" /\ f.echo \in PendingSet
    IN /\ IF hit
          THEN /\ pending' = [pending EXCEPT ![f.echo] = NoSocket]
               /\ outcome' = SettledOutcome({f.echo}, Resolved)
               /\ settles' = SettledCount({f.echo})
               /\ UNCHANGED timeouts
          ELSE UNCHANGED <<timeouts, pending, outcome, settles>>
       /\ delivered' = IF class = "event" THEN Traced(delivered, f) ELSE delivered
       /\ CASE hit -> DidWith("message", "resolved", f.echo, f)
            [] class = "response" /\ ~hit -> DidOn("message", "unmatched", f.echo)
            [] class = "event" -> Did("message", "onEvent")
            [] OTHER -> Did("message", "dropped")

\* mutant: the callback's calls are kept newest first
HandlePayload_NewestFirst(f) ==
    LET class == Classify(f)
        hit == class = "response" /\ f.echo \in PendingSet
    IN /\ CASE hit -> DidWith("message", "resolved", f.echo, f)
            [] class = "response" /\ ~hit -> DidOn("message", "unmatched", f.echo)
            [] class = "event" -> Did("message", "onEvent")
            [] OTHER -> Did("message", "dropped")
       /\ IF hit
          THEN /\ timeouts' = [timeouts EXCEPT ![f.echo] = NoTimer]
               /\ pending' = [pending EXCEPT ![f.echo] = NoSocket]
               /\ outcome' = SettledOutcome({f.echo}, Resolved)
               /\ settles' = SettledCount({f.echo})
          ELSE UNCHANGED <<timeouts, pending, outcome, settles>>
       /\ delivered' = IF class = "event" /\ Len(delivered) < traceCap
                       THEN <<f>> \o delivered ELSE delivered

\* mutant: a response resolves the oldest pending action, whatever its echo
HandlePayload_OldestFirst(f) ==
    LET class == Classify(f)
        hit == class = "response" /\ f.echo \in PendingSet
        oldest == CHOOSE e \in PendingSet : \A x \in PendingSet : e <= x
    IN /\ CASE hit -> DidWith("message", "resolved", f.echo, f)
            [] class = "response" /\ ~hit -> DidOn("message", "unmatched", f.echo)
            [] class = "event" -> Did("message", "onEvent")
            [] OTHER -> Did("message", "dropped")
       /\ IF hit
          THEN /\ timeouts' = [timeouts EXCEPT ![oldest] = NoTimer]
               /\ pending' = [pending EXCEPT ![oldest] = NoSocket]
               /\ outcome' = SettledOutcome({oldest}, Resolved)
               /\ settles' = SettledCount({oldest})
          ELSE UNCHANGED <<timeouts, pending, outcome, settles>>
       /\ delivered' = IF class = "event" THEN Traced(delivered, f) ELSE delivered

\* handlePayload(payload)
HandlePayload(f) ==
    LET class == Classify(f)
        hit == class = "response" /\ f.echo \in PendingSet
    IN /\ CASE hit -> DidWith("message", "resolved", f.echo, f)
            [] class = "response" /\ ~hit -> DidOn("message", "unmatched", f.echo)
            [] class = "event" -> Did("message", "onEvent")
            [] OTHER -> Did("message", "dropped")
       /\ IF hit
          THEN /\ timeouts' = [timeouts EXCEPT ![f.echo] = NoTimer]
               /\ pending' = [pending EXCEPT ![f.echo] = NoSocket]
               /\ outcome' = SettledOutcome({f.echo}, Resolved)
               /\ settles' = SettledCount({f.echo})
          ELSE UNCHANGED <<timeouts, pending, outcome, settles>>
       /\ delivered' = IF class = "event" THEN Traced(delivered, f) ELSE delivered

\* the body of the message listener: JSON.parse in a try, then handlePayload
OnMessage(f) ==
    IF ~f.json
    THEN /\ Did("message", "parse_error")
         /\ UNCHANGED <<timeouts, pending, outcome, settles, delivered>>
    ELSE HandlePayload(f)

\* ws.on("message"): a socket that is open or closing delivers a frame
SocketMessage(s, f) ==
    /\ Ready
    /\ sock[s] \in {"open", "closing"}
    /\ UNCHANGED <<outerVars, clientLogs>>
    /\ arrived' = IF EventFrame(f) THEN Traced(arrived, f) ELSE arrived
    /\ OnMessage(f)
    /\ UNCHANGED <<aborted, listening, sock, ws, stopped, reconnectTimer,
                   liveTimers, actionCounter, frames>>

\* ws.on("error"): the callback is told; the library then closes the socket
SocketError(s) ==
    /\ Ready
    /\ UNCHANGED <<outerVars, ghostVars>>
    /\ sock[s] \in {"connecting", "open"}
    /\ sock' = [sock EXCEPT ![s] = "closing"]
    /\ Did("error", "onError")
    /\ UNCHANGED <<aborted, listening, ws, stopped, reconnectTimer,
                   liveTimers, actionCounter, pending, timeouts, frames, outcome,
                   settles>>

\* mutant: a reconnect is scheduled only for a socket that had opened
SocketClose_OnlyAfterOpen(s) ==
    /\ Ready
    /\ UNCHANGED <<outerVars, ghostVars>>
    /\ Live(s)
    /\ sock' = [sock EXCEPT ![s] = IF ws = s THEN "closed" ELSE "none"]
    /\ RejectAllPending(Err("closed", ""))
    /\ IF ~stopped /\ sock[s] = "open"
       THEN ScheduleReconnect
       ELSE UNCHANGED <<reconnectTimer, liveTimers>>
    /\ Did("close", "onClose")
    /\ UNCHANGED <<aborted, listening, ws, stopped, actionCounter, frames>>

\* ws.on("close")
SocketClose(s) ==
    /\ Ready
    /\ UNCHANGED <<outerVars, ghostVars>>
    /\ Live(s)
    /\ sock' = [sock EXCEPT ![s] = IF ws = s THEN "closed" ELSE "none"]
    /\ RejectAllPending(Err("closed", ""))
    /\ IF ~stopped
       THEN ScheduleReconnect
       ELSE UNCHANGED <<reconnectTimer, liveTimers>>
    /\ Did("close", "onClose")
    /\ UNCHANGED <<aborted, listening, ws, stopped, actionCounter, frames>>

\* mutant: a new connection starts counting its actions from zero
ReconnectFire_ResetsCounter ==
    /\ Ready
    /\ UNCHANGED <<outerVars, arrived, delivered>>
    /\ liveTimers > 0
    /\ liveTimers' = liveTimers - 1
    /\ reconnectTimer' = FALSE
    /\ Connect
    /\ Did("reconnect", "-")
    /\ actionCounter' = 0
    /\ UNCHANGED <<aborted, stopped, pending, timeouts,
                   frames, outcome, settles>>

\* the reconnect timeout fires
ReconnectFire ==
    /\ Ready
    /\ UNCHANGED <<outerVars, arrived, delivered>>
    /\ liveTimers > 0
    /\ liveTimers' = liveTimers - 1
    /\ reconnectTimer' = FALSE
    /\ Connect
    /\ Did("reconnect", "-")
    /\ UNCHANGED <<aborted, stopped, actionCounter, pending, timeouts,
                   frames, outcome, settles>>

\* the handler has returned: the event loop takes the next callback
Return ==
    /\ ~Ready
    /\ UNCHANGED <<outerVars, ghostVars>>
    /\ last' = Quiet
    /\ UNCHANGED <<aborted, listening, sock, ws, stopped, reconnectTimer, liveTimers,
                   actionCounter, pending, timeouts, frames, outcome, settles>>

Next ==
    \/ Start
    \/ Stop
    \/ Abort
    \/ \E a \in ActionNames, throws \in BOOLEAN : SendAction(a, throws)
    \/ \E e \in Echoes : ActionTimeout(e)
    \/ \E s \in SocketIds : SocketOpen(s)
    \/ \E s \in SocketIds, f \in Frames : SocketMessage(s, f)
    \/ \E s \in SocketIds : SocketError(s)
    \/ \E s \in SocketIds : SocketClose(s)
    \/ ReconnectFire
    \/ Return


\* ------------------------------------------------------------- monitor
MaxEvents == 2       \* events delivered to the event callback

MaxGated == 1       \* events of the runs that look at one event's path

EventIds == 1..MaxEvents
SelfId == "bot"                      \* account.selfId
\* account.config.allowFrom: the schema accepts dmPolicy "open" only with "*"
\* among the entries
AllowFrom == IF dmPolicy = "open" THEN {"u1", "*"} ELSE {"u1"}
GroupAllowFrom == {}                 \* account.config.groupAllowFrom
NoTarget == <<>>
\* an entry of account.config.groups: enabled is FALSE only when the entry
\* says enabled: false; requireMention is "unset", "true" or "false"
GroupEntry(enabled, mention) == [enabled |-> enabled, requireMention |-> mention]
NoGroups == [k \in {} |-> GroupEntry(TRUE, "unset")]
GroupConfigs ==
    {NoGroups,
     [k \in {"g1"} |-> GroupEntry(TRUE, "unset")],
     [k \in {"g1"} |-> GroupEntry(FALSE, "unset")]}

\* The fields of an event the handler reads.  A field is varied where the
\* handler's path reads it: the group id of private and group events, the
\* guild and channel ids of channel events.  mention sums up the segments:
\* no mention segment, a mention of the bot, a mention of someone else, or
\* mention_all; tx says whether the text resolved from the event is non-empty.
Event(ty, d, u, g, gd, ch, tx, mn) ==
    [type |-> ty, detail |-> d, user |-> u, group |-> g, guild |-> gd,
     channel |-> ch, text |-> tx, mention |-> mn]

Users == {"", SelfId, "u1", "u2"}

Events ==
    {Event("notice", "group", "u1", "g1", "", "", TRUE, "none"),
     Event("message", "", "u1", "g1", "", "", TRUE, "none")}
    \cup {Event("message", d, u, g, "", "", tx, "none") :
            d \in {"private", "group"}, u \in Users, g \in {"", "g1", "g2"},
            tx \in BOOLEAN}
    \cup {Event("message", "channel", u, "", c[1], c[2], tx, "none") :
            u \in Users, c \in {<<"gd", "ch">>, <<"gd", "">>, <<"", "ch">>},
            tx \in BOOLEAN}

\* Events that fail a shape check, and well-formed private, group and
\* channel messages with every kind of mention segment (a mention segment
\* makes the resolved text non-empty)
Mentions == {"none", "self", "other", "all"}
GateEvents ==
    {Event("notice", "private", "u1", "", "", "", TRUE, "none"),
     Event("message", "", "u1", "g1", "", "", TRUE, "none"),
     Event("message", "private", "", "", "", "", TRUE, "none"),
     Event("message", "group", SelfId, "g1", "", "", TRUE, "none"),
     Event("message", "private", "u2", "", "", "", FALSE, "none"),
     Event("message", "group", "u1", "", "", "", TRUE, "none"),
     Event("message", "channel", "u1", "", "gd", "", TRUE, "none")}
    \cup {Event("message", "private", u, g, "", "", TRUE, "none") :
            u \in {"u1", "u2"}, g \in {"", "g1"}}
    \cup {Event("message", "group", u, g, "", "", TRUE, mn) :
            u \in {"u1", "u2"}, g \in {"g1", "g2"}, mn \in Mentions}
    \cup {Event("message", "channel", u, "", "gd", "ch", TRUE, mn) :
            u \in {"u1", "u2"}, mn \in Mentions}

\* Message events of every detail type, with and without each id
ShapeEvents ==
    {Event("message", d, u, g, gd, ch, tx, "none") :
        d \in {"", "private", "user", "dm", "group", "channel", "guild"},
        u \in {"", SelfId, "u1"}, g \in {"", "g1"}, gd \in {"", "gd"},
        ch \in {"", "ch"}, tx \in BOOLEAN}

\* String.prototype.trim and toLowerCase on the ids and entries in use
TrimId(s) ==
    CASE s = " " -> ""
      [] s = " * " -> "*"
      [] s = " u3 " -> "u3"
      [] s = " bot " -> "bot"
      [] OTHER -> s
LowerId(s) ==
    CASE s = "U1" -> "u1"
      [] s = "U2" -> "u2"
      [] OTHER -> s

\* The segments an event's mention stands for: a text segment alone, a
\* mention of the configured bot id, of another user, mention_all, a mention
\* whose user id is padded with blanks, one without a user id, one of a
\* second bot id, and two mentions of which the second is the bot's.
MentionSegments(mn) ==
    LET text == [type |-> "text", user_id |-> ""]
        mention(id) == [type |-> "mention", user_id |-> id]
    IN CASE mn = "none" -> <<text>>
         [] mn = "self" -> <<text, mention(SelfId)>>
         [] mn = "other" -> <<mention("u2"), text>>
         [] mn = "all" -> <<[type |-> "mention_all", user_id |-> ""], text>>
         [] mn = "padded" -> <<mention(" bot ")>>
         [] mn = "nobody" -> <<mention("")>>
         [] mn = "bot2" -> <<mention("bot2"), text>>
         [] mn = "other+self" -> <<mention("u2"), text, mention(SelfId)>>

\* mutant: the account's self id is taken before the event's
ResolveSelfId_AccountFirst(ev) ==
    LET own == IF "self" \in DOMAIN ev THEN TrimId(ev.self) ELSE ""
    IN IF TrimId(accountSelfId) # "" THEN TrimId(accountSelfId) ELSE own

\* the self id handleOneBotMessage resolves: the event's self.user_id, else
\* account.selfId, each trimmed; "" is null.  An event without a self object
\* has no self field.
ResolveSelfId(ev) ==
    LET own == IF "self" \in DOMAIN ev THEN TrimId(ev.self) ELSE ""
    IN IF own # "" THEN own ELSE TrimId(accountSelfId)

\* mutant: any mention segment counts as a mention of the bot
ResolveMentionSignals_AnyMention(segments, selfId) ==
    LET mentions == {k \in 1..Len(segments) :
                        segments[k].type \in {"mention", "mention_all"}}
    IN [hasAnyMention |-> mentions # {}, mentionedSelf |-> mentions # {}]

\* resolveMentionSignals: the two flags its loop over the segments sets
ResolveMentionSignals(segments, selfId) ==
    LET mentions == {k \in 1..Len(segments) :
                        segments[k].type \in {"mention", "mention_all"}}
        confirms(k) ==
            \/ segments[k].type = "mention_all"
            \/ /\ segments[k].type = "mention"
               /\ selfId # ""
               /\ TrimId(segments[k].user_id) # ""
               /\ TrimId(segments[k].user_id) = selfId
    IN [hasAnyMention |-> mentions # {},
        mentionedSelf |-> \E k \in mentions : confirms(k)]

\* the text of a target, as buildOneBotTargetFromEvent formats it
TargetText(target) ==
    IF target[1] = "channel" THEN "channel:" \o target[2] \o ":" \o target[3]
    ELSE target[1] \o ":" \o target[2]

Idle == [pc |-> "idle"]
Ended(how) == [pc |-> how]
\* the call returned at a shape check: at is "target" when it was for want
\* of a target, "shape" for every other check
Ignored(at) == [pc |-> "ignored", at |-> at]
\* the call returned at a policy check, with the reason it logged
Dropped(why) == [pc |-> "dropped", why |-> why]
\* what one call of handleOneBotMessage has done to the outside so far
NoEffects == [upserts |-> 0, created |-> 0, sends |-> 0, records |-> 0, dispatches |-> 0]
Running == {"readStore", "upsert", "pairingReply", "record", "dispatch"}
Active(i) == handlers[i].pc \in Running

\* mutant: a channel is addressed by its channel id alone
BuildOneBotTargetFromEvent_ChannelOnly(detail, userId, groupId, guildId, channelId) ==
    IF detail \in {"private", "user", "dm"}
    THEN IF userId = "" THEN NoTarget ELSE <<"user", userId>>
    ELSE IF detail = "group"
    THEN IF groupId = "" THEN NoTarget ELSE <<"group", groupId>>
    ELSE IF detail = "channel"
    THEN IF channelId = "" THEN NoTarget
         ELSE <<"channel", guildId, channelId>>
    ELSE NoTarget

\* buildOneBotTargetFromEvent
BuildOneBotTargetFromEvent(detail, userId, groupId, guildId, channelId) ==
    IF detail \in {"private", "user", "dm"}
    THEN IF userId = "" THEN NoTarget ELSE <<"user", userId>>
    ELSE IF detail = "group"
    THEN IF groupId = "" THEN NoTarget ELSE <<"group", groupId>>
    ELSE IF detail = "channel"
    THEN IF guildId = "" \/ channelId = "" THEN NoTarget
         ELSE <<"channel", guildId, channelId>>
    ELSE NoTarget

\* normalizeOneBotUserId: trim, then drop a leading onebot: and a leading
\* user:, private:, dm: or qq:, of any case
NormalizeOneBotUserId(s) ==
    CASE TrimId(s) = "user:U1" -> "U1"
      [] TrimId(s) = "onebot:DM:u3" -> "u3"
      [] OTHER -> TrimId(s)

\* normalizeAllowlist: the entries and whether "*" is among them
NormalizeAllowlist(entries) ==
    LET raws == {TrimId(e) : e \in entries} \ {""}
    IN [entries |-> {LowerId(NormalizeOneBotUserId(raw)) : raw \in raws \ {"*"}},
        hasWildcard |-> "*" \in raws]

\* mutant: only the second list's wildcard counts
MergeAllowlists_WildcardOfSecond(a, b) ==
    [entries |-> a.entries \cup b.entries, hasWildcard |-> b.hasWildcard]

\* mergeAllowlists
MergeAllowlists(a, b) ==
    [entries |-> a.entries \cup b.entries, hasWildcard |-> a.hasWildcard \/ b.hasWildcard]

\* isAllowed
IsAllowed(list, senderId) ==
    LET candidate == LowerId(TrimId(senderId))
    IN list.hasWildcard \/ (candidate # "" /\ candidate \in list.entries)

\* mutant: the "*" key does not allow a group
ResolveGroupConfig_DirectOnly(gs, groupKey) ==
    LET allowlistEnabled == DOMAIN gs # {}
        hasDirect == groupKey # "" /\ groupKey \in DOMAIN gs
        hasWildcard == "*" \in DOMAIN gs
    IN [allowed |-> ~allowlistEnabled \/ hasDirect,
        disabled |-> IF hasDirect THEN ~gs[groupKey].enabled
                     ELSE IF hasWildcard THEN ~gs["*"].enabled ELSE FALSE]

\* resolveGroupConfig: key "" stands for a null group key
ResolveGroupConfig(gs, groupKey) ==
    LET allowlistEnabled == DOMAIN gs # {}
        hasDirect == groupKey # "" /\ groupKey \in DOMAIN gs
        hasWildcard == "*" \in DOMAIN gs
    IN [allowed |-> ~allowlistEnabled \/ hasDirect \/ hasWildcard,
        disabled |-> IF hasDirect THEN ~gs[groupKey].enabled
                     ELSE IF hasWildcard THEN ~gs["*"].enabled ELSE FALSE]

\* the group key: the channel address for channel events, the raw group id
\* for group events
GroupKeyOf(detail, target, groupId) ==
    IF detail = "channel" THEN TargetText(target)
    ELSE IF detail = "group" THEN groupId
    ELSE ""

\* handleOneBotMessage up to its first await: where the call stands afterwards
AfterShapeChecks(ev) ==
    LET target == BuildOneBotTargetFromEvent(ev.detail, ev.user, ev.group,
                                             ev.guild, ev.channel)
        selfId == ResolveSelfId(ev)
    IN IF ev.detail = "" \/ ev.user = "" THEN Ignored("shape")
       ELSE IF selfId # "" /\ ev.user = selfId THEN Ignored("shape")
       ELSE IF target = NoTarget THEN Ignored("target")
       ELSE IF ~ev.text THEN Ignored("shape")
       ELSE [pc |-> "readStore",
             detail |-> ev.detail,
             sender |-> ev.user,
             target |-> target,
             groupKey |-> GroupKeyOf(ev.detail, target, ev.group),
             signals |-> ResolveMentionSignals(MentionSegments(ev.mention), selfId),
             conversationId |-> IF ev.detail = "channel"
                                THEN ev.guild \o ":" \o ev.channel
                                ELSE IF ev.group # "" THEN ev.group ELSE ev.user]

\* mutant: the group policy is looked at before the matched entry
GroupAdmission_PolicyFirst(h, groupAllow) ==
    LET state == ResolveGroupConfig(groups, h.groupKey)
    IN IF ~state.allowed THEN "not allowlisted"
       ELSE IF groupPolicy = "disabled" THEN "groupPolicy=disabled"
       ELSE IF state.disabled THEN "disabled"
       ELSE IF groupPolicy = "allowlist" /\ ~IsAllowed(groupAllow, h.sender)
       THEN "not allowed"
       ELSE ""

\* the group branch of the admission checks: "" when the event passes
GroupAdmission(h, groupAllow) ==
    LET state == ResolveGroupConfig(groups, h.groupKey)
    IN IF ~state.allowed THEN "not allowlisted"
       ELSE IF state.disabled THEN "disabled"
       ELSE IF groupPolicy = "disabled" THEN "groupPolicy=disabled"
       ELSE IF groupPolicy = "allowlist" /\ ~IsAllowed(groupAllow, h.sender)
       THEN "not allowed"
       ELSE ""

\* mutant: the allowlist is consulted before the policy
DmAdmission_AllowedFirst(h, dmAllow) ==
    IF IsAllowed(dmAllow, h.sender) THEN ""
    ELSE IF dmPolicy = "disabled" THEN "dmPolicy=disabled"
    ELSE IF dmPolicy = "open" THEN ""
    ELSE IF dmPolicy = "pairing" THEN "pairing"
    ELSE "dmPolicy"

\* the direct-message branch: "", "pairing" (upsert a request) or a drop reason
DmAdmission(h, dmAllow) ==
    IF dmPolicy = "disabled" THEN "dmPolicy=disabled"
    ELSE IF dmPolicy = "open" THEN ""
    ELSE IF IsAllowed(dmAllow, h.sender) THEN ""
    ELSE IF dmPolicy = "pairing" THEN "pairing"
    ELSE "dmPolicy"

\* the event callback the monitor gives the client, and the synchronous start
\* of handleOneBotMessage: the shape checks, then the status sink is told of
\* the inbound message, then the call waits for the pairing store
OnEvent(ev) ==
    /\ nEvents < eventCap
    /\ nEvents' = nEvents + 1
    /\ handlers' = [handlers EXCEPT ![nEvents + 1] =
                      IF ev.type # "message" THEN Ignored("shape")
                      ELSE AfterShapeChecks(ev)]
    /\ lastInboundAt' = [lastInboundAt EXCEPT ![nEvents + 1] =
                           handlers'[nEvents + 1].pc = "readStore"]
    /\ UNCHANGED <<configVars, pairingStore, effects>>
    /\ UNCHANGED <<clientVars, ghostVars, hostVars>>

\* What the host's services answer to one handler between the store read and
\* the mention gate: the control-command gate (shouldBlock, commandAuthorized),
\* hasControlCommand, shouldHandleTextCommands, whether the agent has mention
\* patterns and whether the text matches one.
Answer(block, auth, control, textCommands, regexes, textMentioned) ==
    [block |-> block, auth |-> auth, control |-> control,
     textCommands |-> textCommands, regexes |-> regexes,
     textMentioned |-> textMentioned]

\* a command is blocked only when it is a control command the sender is not
\* authorized for; a text matches a pattern only when there are patterns
\* a plain message from a sender who may or may not run commands, a control
\* command that is authorized (text commands on or off), one that is blocked
\* and one that is merely unauthorized; no mention pattern, or patterns one
\* of which matches the text
HostAnswers ==
    {Answer(g[1], g[2], g[3], g[4], m[1], m[2]) :
        g \in {<<FALSE, FALSE, FALSE, TRUE>>, <<FALSE, TRUE, FALSE, TRUE>>,
               <<FALSE, TRUE, TRUE, TRUE>>, <<FALSE, TRUE, TRUE, FALSE>>,
               <<TRUE, FALSE, TRUE, TRUE>>, <<FALSE, FALSE, TRUE, TRUE>>},
        m \in {<<FALSE, FALSE>>, <<TRUE, TRUE>>}}

\* what readAllowFromStore answers: the senders approved by pairing
StoreContents == {{}, {"u2"}}

\* a plain message and a blocked control command, both from a sender who
\* may not run commands
HostAnswersFew ==
    {Answer(b, FALSE, b, TRUE, FALSE, FALSE) : b \in BOOLEAN}

\* what the host requires when neither a group entry nor the account says
HostRequireMention == TRUE

\* The host's resolveRequireMention: the entry of the group, else the "*"
\* entry, else the override the monitor passes (account.requireMention), else
\* the host's default.
ResolveRequireMention(gs, groupKey, override) ==
    LET entry == IF groupKey # "" /\ groupKey \in DOMAIN gs
                 THEN gs[groupKey].requireMention
                 ELSE IF "*" \in DOMAIN gs THEN gs["*"].requireMention
                 ELSE "unset"
    IN IF entry # "unset" THEN entry = "true"
       ELSE IF override # "unset" THEN override = "true"
       ELSE HostRequireMention

\* The host's resolveMentionGatingWithBypass: an authorized control command
\* counts as a mention; the event is skipped when a mention is required and
\* there is none.
ResolveMentionGatingWithBypass(isGroup, require, canDetect, wasMentioned, textCommands, control, auth) ==
    LET bypass == isGroup /\ require /\ ~wasMentioned /\ textCommands
                  /\ control /\ auth
        effective == wasMentioned \/ bypass
    IN [effectiveWasMentioned |-> effective, shouldSkip |-> require /\ ~effective]

\* mutant: From is the sender's address in every kind of chat
Ctx_FromSender(h, auth) ==
    [From |-> "onebot:user:" \o h.sender,
     To |-> "onebot:" \o TargetText(h.target),
     OriginatingTo |-> "onebot:" \o TargetText(h.target),
     ChatType |-> IF h.detail = "channel" THEN "channel"
                  ELSE IF h.detail = "group" THEN "group" ELSE "direct",
     SenderId |-> h.sender,
     CommandAuthorized |-> auth]

\* ctxPayload, as far as the sender, the chat and the addresses go
Ctx(h, auth) ==
    [From |-> "onebot:" \o TargetText(h.target),
     To |-> "onebot:" \o TargetText(h.target),
     OriginatingTo |-> "onebot:" \o TargetText(h.target),
     ChatType |-> IF h.detail = "channel" THEN "channel"
                  ELSE IF h.detail = "group" THEN "group" ELSE "direct",
     SenderId |-> h.sender,
     CommandAuthorized |-> auth]

\* mutant: a blocked command is dropped in direct messages too
CommandGateDrops_AnyChat(isGroup, a) == a.block

\* the test on the control-command gate's answer
CommandGateDrops(isGroup, a) == isGroup /\ a.block

\* handleOneBotMessage from the answer of readAllowFromStore to its next
\* await or return: admission, command gate, route, mention gate, context; a
\* is what the host's services answer on the way.  The call keeps what the
\* rest of the function reads: the group key and the conversation id are
\* used up by admission and route resolution.
AfterStoreRead(h, stored, a) ==
    LET isGroup == h.detail \in {"group", "channel"}
        configAllow == NormalizeAllowlist(allowFrom)
        storeAllow == NormalizeAllowlist(stored)
        dmAllow == MergeAllowlists(configAllow, storeAllow)
        baseGroup == IF groupAllowFrom # {} THEN NormalizeAllowlist(groupAllowFrom)
                     ELSE configAllow
        groupAllow == MergeAllowlists(baseGroup, storeAllow)
        admission == IF isGroup THEN GroupAdmission(h, groupAllow)
                     ELSE DmAdmission(h, dmAllow)
        wasMentioned == h.signals.mentionedSelf \/ (a.regexes /\ a.textMentioned)
        canDetect == a.regexes \/ h.signals.hasAnyMention
        require == IF isGroup
                   THEN ResolveRequireMention(groups, h.groupKey, requireMention)
                   ELSE FALSE
        gate == ResolveMentionGatingWithBypass(isGroup, require, canDetect,
                    wasMentioned, a.textCommands, a.control, a.auth)
    IN  IF admission = "pairing" THEN [pc |-> "upsert", sender |-> h.sender]
        ELSE IF admission # "" THEN Dropped(admission)
        ELSE IF CommandGateDrops(isGroup, a) THEN Dropped("control command")
        ELSE IF isGroup /\ gate.shouldSkip THEN Dropped("no mention")
        ELSE [pc |-> "record", detail |-> h.detail, sender |-> h.sender,
              target |-> h.target, ctx |-> Ctx(h, a.auth)]

\* readAllowFromStore has answered
StoreRead(i, stored, a) ==
    /\ handlers[i].pc = "readStore"
    /\ handlers' = [handlers EXCEPT ![i] = AfterStoreRead(@, stored, a)]
    /\ UNCHANGED <<configVars, pairingStore, nEvents, effects, lastInboundAt>>
    /\ UNCHANGED <<clientVars, ghostVars, hostVars>>

\* upsertPairingRequest has answered; created is the host's answer, and a
\* reply is sent only when it is true.  pairingStore records the senders a
\* request was upserted for.
\* mutant: the pairing reply is sent whatever the upsert answered
UpsertDone_AlwaysReplies(i, created) ==
    /\ handlers[i].pc = "upsert"
    /\ pairingStore' = pairingStore \cup {handlers[i].sender}
    /\ handlers' = [handlers EXCEPT ![i] =
                      [pc |-> "pairingReply", sender |-> @.sender,
                       target |-> "user:" \o @.sender]]
    /\ effects' = [effects EXCEPT ![i].upserts = @ + 1,
                                  ![i].created = @ + (IF created THEN 1 ELSE 0)]
    /\ UNCHANGED <<configVars, nEvents, lastInboundAt>>
    /\ UNCHANGED <<clientVars, ghostVars, hostVars>>

UpsertDone(i, created) ==
    /\ handlers[i].pc = "upsert"
    /\ pairingStore' = pairingStore \cup {handlers[i].sender}
    /\ handlers' = [handlers EXCEPT ![i] =
                      IF created
                      THEN [pc |-> "pairingReply", sender |-> @.sender,
                            target |-> "user:" \o @.sender]
                      ELSE Dropped("dmPolicy")]
    /\ effects' = [effects EXCEPT ![i].upserts = @ + 1,
                                  ![i].created = @ + (IF created THEN 1 ELSE 0)]
    /\ UNCHANGED <<configVars, nEvents, lastInboundAt>>
    /\ UNCHANGED <<clientVars, ghostVars, hostVars>>

\* mutant: the pairing code is sent a second time when the first send failed
PairingReplyDone_Resends(i, ok) ==
    /\ handlers[i].pc = "pairingReply"
    /\ handlers' = [handlers EXCEPT ![i] = Dropped("dmPolicy")]
    /\ effects' = [effects EXCEPT ![i].sends = @ + (IF ok THEN 1 ELSE 2)]
    /\ UNCHANGED <<configVars, pairingStore, nEvents, lastInboundAt>>
    /\ UNCHANGED <<clientVars, ghostVars, hostVars>>

\* the pairing reply was sent or its send failed (logged); the event is dropped
PairingReplyDone(i, ok) ==
    /\ handlers[i].pc = "pairingReply"
    /\ handlers' = [handlers EXCEPT ![i] = Dropped("dmPolicy")]
    /\ effects' = [effects EXCEPT ![i].sends = @ + 1]
    /\ UNCHANGED <<configVars, pairingStore, nEvents, lastInboundAt>>
    /\ UNCHANGED <<clientVars, ghostVars, hostVars>>

\* recordInboundSession has returned
RecordDone(i) ==
    /\ handlers[i].pc = "record"
    /\ handlers' = [handlers EXCEPT ![i].pc = "dispatch"]
    /\ effects' = [effects EXCEPT ![i].records = @ + 1]
    /\ UNCHANGED <<configVars, pairingStore, nEvents, lastInboundAt>>
    /\ UNCHANGED <<clientVars, ghostVars, hostVars>>

\* dispatchReplyWithBufferedBlockDispatcher has returned, having delivered
\* replies payloads through deliverOneBotReply
DispatchDone(i, replies) ==
    /\ handlers[i].pc = "dispatch"
    /\ handlers' = [handlers EXCEPT ![i] = Ended("done")]
    /\ effects' = [effects EXCEPT ![i].dispatches = @ + 1,
                                  ![i].sends = @ + replies]
    /\ UNCHANGED <<configVars, pairingStore, nEvents, lastInboundAt>>
    /\ UNCHANGED <<clientVars, ghostVars, hostVars>>

\* ------------------------------------------------- target addressing
\* A text is a sequence of symbols: the words below stand for runs of
\* letters and digits, ":" "/" and " " for themselves.

MaxLen == 4         \* pieces an address text is put together from

\* the pieces, and the symbols each one is made of
Pieces == {"DM:", "group:", "channel:", "guild:", ":", "/", " ", "a", "b"}
Chars(piece) ==
    CASE piece = "DM:" -> <<"DM", ":">>
      [] piece = "group:" -> <<"group", ":">>
      [] piece = "channel:" -> <<"channel", ":">>
      [] piece = "guild:" -> <<"guild", ":">>
      [] piece = "onebot:" -> <<"onebot", ":">>
      [] piece = "OneBot:" -> <<"OneBot", ":">>
      [] OTHER -> <<piece>>

RECURSIVE Flatten(_)
Flatten(pieces) ==
    IF pieces = <<>> THEN <<>> ELSE Chars(Head(pieces)) \o Flatten(Tail(pieces))

\* how an address text may begin: as it is, or with the scheme in front
Schemes == {<<>>, <<"onebot:">>, <<" ", "OneBot:">>}
TargetTexts(maxLen) ==
    {Flatten(scheme \o body) :
        scheme \in Schemes,
        body \in UNION {[1..n -> Pieces] : n \in 0..maxLen}}

\* String.prototype.toLowerCase, symbol by symbol
ToLowerCase(text) ==
    [i \in 1..Len(text) |->
        CASE text[i] = "DM" -> "dm"
          [] text[i] = "OneBot" -> "onebot"
          [] OTHER -> text[i]]

\* String.prototype.trim
RECURSIVE TrimStart(_)
TrimStart(text) ==
    IF text # <<>> /\ Head(text) = " " THEN TrimStart(Tail(text)) ELSE text
RECURSIVE TrimEnd(_)
TrimEnd(text) ==
    IF text # <<>> /\ text[Len(text)] = " "
    THEN TrimEnd(SubSeq(text, 1, Len(text) - 1)) ELSE text
Trim(text) == TrimEnd(TrimStart(text))

\* String.prototype.startsWith
StartsWith(text, prefix) ==
    /\ Len(text) >= Len(prefix)
    /\ SubSeq(text, 1, Len(prefix)) = prefix

\* normalizeRawTarget: trim, then drop one leading onebot: of any case
NormalizeRawTarget(input) ==
    LET trimmed == Trim(input)
    IN IF StartsWith(ToLowerCase(trimmed), <<"onebot", ":">>)
       THEN SubSeq(trimmed, 3, Len(trimmed))
       ELSE trimmed

\* stripPrefix: what follows the prefix, trimmed; no match is the null
NoMatch == [match |-> FALSE, rest |-> <<>>]
StripPrefix(input, prefix) ==
    IF ~StartsWith(ToLowerCase(input), prefix)
    THEN NoMatch
    ELSE [match |-> TRUE,
          rest |-> Trim(SubSeq(input, Len(prefix) + 1, Len(input)))]

\* rest.split(/[/:]/): the runs between the separators
RECURSIVE SplitParts(_, _)
SplitParts(text, run) ==
    IF text = <<>> THEN <<run>>
    ELSE IF Head(text) \in {"/", ":"}
         THEN <<run>> \o SplitParts(Tail(text), <<>>)
         ELSE SplitParts(Tail(text), Append(run, Head(text)))

\* .map((part) => part.trim()).filter(Boolean)
Segments(rest) ==
    LET trimmed == [i \in 1..Len(SplitParts(rest, <<>>)) |->
                       Trim(SplitParts(rest, <<>>)[i])]
    IN SelectSeq(trimmed, LAMBDA part : part # <<>>)

UserPrefixes ==
    <<(<<"user", ":">>), (<<"private", ":">>), (<<"dm", ":">>), (<<"qq", ":">>)>>
ChannelPrefixes == <<(<<"channel", ":">>), (<<"guild", ":">>)>>

NoParse == [kind |-> "none"]
UserTarget(id) == [kind |-> "user", userId |-> id]
GroupTarget(id) == [kind |-> "group", groupId |-> id]
ChannelTarget(gd, ch) == [kind |-> "channel", guildId |-> gd, channelId |-> ch]

\* the prefixes of a list that match with something after them, in order
Matching(raw, prefixes) ==
    SelectSeq(prefixes,
              LAMBDA p : StripPrefix(raw, p).match /\ StripPrefix(raw, p).rest # <<>>)

\* mutant: a channel needs one segment only
ParseOneBotTarget_OneSegment(input) ==
    LET raw == NormalizeRawTarget(input)
        users == Matching(raw, UserPrefixes)
        group == StripPrefix(raw, <<"group", ":">>)
        channels == Matching(raw, ChannelPrefixes)
    IN IF raw = <<>> THEN NoParse
       ELSE IF users # <<>> THEN UserTarget(StripPrefix(raw, Head(users)).rest)
       ELSE IF group.match /\ group.rest # <<>> THEN GroupTarget(group.rest)
       ELSE IF channels # <<>>
            THEN LET parts == Segments(StripPrefix(raw, Head(channels)).rest)
                 IN IF Len(parts) < 1 THEN NoParse
                    ELSE ChannelTarget(parts[1],
                                       IF Len(parts) < 2 THEN <<>> ELSE parts[2])
       ELSE NoParse

\* parseOneBotTarget
ParseOneBotTarget(input) ==
    LET raw == NormalizeRawTarget(input)
        users == Matching(raw, UserPrefixes)
        group == StripPrefix(raw, <<"group", ":">>)
        channels == Matching(raw, ChannelPrefixes)
    IN IF raw = <<>> THEN NoParse
       ELSE IF users # <<>> THEN UserTarget(StripPrefix(raw, Head(users)).rest)
       ELSE IF group.match /\ group.rest # <<>> THEN GroupTarget(group.rest)
       ELSE IF channels # <<>>
            THEN LET parts == Segments(StripPrefix(raw, Head(channels)).rest)
                 IN IF Len(parts) < 2 THEN NoParse
                    ELSE ChannelTarget(parts[1], parts[2])
       ELSE NoParse

\* mutant: the guild and the channel are written without the colon between
Render_NoSeparator(parsed) ==
    CASE parsed.kind = "user" -> <<"user", ":">> \o parsed.userId
      [] parsed.kind = "group" -> <<"group", ":">> \o parsed.groupId
      [] parsed.kind = "channel" ->
            <<"channel", ":">> \o parsed.guildId \o parsed.channelId

\* the canonical text of a target: user:ID, group:ID, channel:GUILD:CHANNEL
Render(parsed) ==
    CASE parsed.kind = "user" -> <<"user", ":">> \o parsed.userId
      [] parsed.kind = "group" -> <<"group", ":">> \o parsed.groupId
      [] parsed.kind = "channel" ->
            <<"channel", ":">> \o parsed.guildId \o <<":">> \o parsed.channelId

\* normalizeOneBotMessagingTarget
NormalizeOneBotMessagingTarget(input) ==
    LET parsed == ParseOneBotTarget(input)
    IN IF parsed.kind = "none" THEN Trim(input) ELSE Render(parsed)

\* no address text is being looked at
NotAsked == [pc |-> "idle"]
Asked(input) == [pc |-> "asked", input |-> input]

\* a caller parses and normalizes the text it holds
ParseAndNormalize ==
    /\ targetCall.pc = "asked"
    /\ targetCall' = [pc |-> "normalized", input |-> targetCall.input,
                  parsed |-> ParseOneBotTarget(targetCall.input),
                  normalized |-> NormalizeOneBotMessagingTarget(targetCall.input)]
    /\ UNCHANGED <<clientVars, ghostVars, hostVars, pairingStore, nEvents,
                   handlers, effects, lastInboundAt, dmPolicy, groupPolicy,
                   groups, allowFrom, groupAllowFrom, accountSelfId,
                   requireMention, eventCap>>

\* the caller parses and normalizes what the first round returned
NormalizeAgain ==
    /\ targetCall.pc = "normalized"
    /\ targetCall' = [pc |-> "again", input |-> targetCall.input,
                  first |-> targetCall.parsed, once |-> targetCall.normalized,
                  parsed |-> ParseOneBotTarget(targetCall.normalized),
                  normalized |-> NormalizeOneBotMessagingTarget(targetCall.normalized)]
    /\ UNCHANGED <<clientVars, ghostVars, hostVars, pairingStore, nEvents,
                   handlers, effects, lastInboundAt, dmPolicy, groupPolicy,
                   groups, allowFrom, groupAllowFrom, accountSelfId,
                   requireMention, eventCap>>

\* the monitor before its first event
HandlersIdle ==
    /\ pairingStore = {}
    /\ nEvents = 0
    /\ handlers = [i \in EventIds |-> Idle]
    /\ effects = [i \in EventIds |-> NoEffects]
    /\ lastInboundAt = [i \in EventIds |-> FALSE]

PipeIdle ==
    /\ HandlersIdle
    /\ accountSelfId = SelfId
    /\ groupAllowFrom = GroupAllowFrom
    /\ targetCall = NotAsked

\* no gateway around the client: a URL that parses, no token, nothing traced
\* the second monitor has not been started; holds says the registry's entry
\* for the account id is its client
NoSecond == [pc |-> "idle", holds |-> FALSE]

HostIdle ==
    /\ wsUrl = Url(TRUE, "")
    /\ accessToken = ""
    /\ gatewayLogs = {}
    /\ monitor = "idle"
    /\ registered = FALSE
    /\ traceCap = 0
    /\ secondMonitor = NoSecond

Init ==
    /\ ClientInit
    /\ HostIdle
    /\ dmPolicy = "pairing"
    /\ groupPolicy = "allowlist"
    /\ groups = NoGroups
    /\ allowFrom = AllowFrom
    /\ requireMention = "unset"
    /\ eventCap = MaxEvents
    /\ PipeIdle

\* the client alone, under one account configuration
Spec == Init /\ [][Next]_vars

TargetInit ==
    /\ ClientInit
    /\ HostIdle
    /\ dmPolicy = "pairing"
    /\ groupPolicy = "allowlist"
    /\ groups = NoGroups
    /\ allowFrom = AllowFrom
    /\ requireMention = "unset"
    /\ eventCap = MaxEvents
    /\ HandlersIdle
    /\ groupAllowFrom = GroupAllowFrom
    /\ accountSelfId = SelfId
    /\ targetCall \in {Asked(input) : input \in TargetTexts(MaxLen)}

TargetNext ==
    \/ ParseAndNormalize
    \/ NormalizeAgain

\* the pure functions of targets.ts, applied to every address text
TargetSpec == TargetInit /\ [][TargetNext]_vars

MonitorInit ==
    /\ ClientInit
    /\ HostIdle
    /\ dmPolicy \in {"pairing", "allowlist", "open", "disabled"}
    /\ groupPolicy \in {"allowlist", "open", "disabled"}
    /\ groups \in GroupConfigs
    /\ allowFrom = AllowFrom
    /\ requireMention = "false"
    /\ eventCap = MaxEvents
    /\ PipeIdle

MonitorNext ==
    \/ \E ev \in Events : OnEvent(ev)
    \/ \E i \in EventIds, stored \in StoreContents, a \in HostAnswersFew :
          StoreRead(i, stored, a)
    \/ \E i \in EventIds, created \in BOOLEAN : UpsertDone(i, created)
    \/ \E i \in EventIds, ok \in BOOLEAN : PairingReplyDone(i, ok)
    \/ \E i \in EventIds : RecordDone(i)
    \/ \E i \in EventIds : DispatchDone(i, 1)

\* the shape checks at the start of handleOneBotMessage, on events of every
\* shape
ShapeNext == \E ev \in ShapeEvents : OnEvent(ev)
ShapeSpec == Init /\ [][ShapeNext]_vars

\* Group and private messages of a user and of the bot's own id, with a self
\* object naming the bot, another bot, the bot with blanks around, or without
\* one, and with every kind of mention
MentionEvents ==
    {Event("message", d, u, "g1", "", "", TRUE, mn) :
        d \in {"group", "private"}, u \in {"u1", SelfId},
        mn \in {"none", "self", "other", "all", "padded", "nobody", "bot2",
                "other+self"}}
    \cup {Event("message", "group", u, "g1", "", "", TRUE, mn)
              @@ [self |-> own] :
            u \in {"u1", SelfId}, own \in {"", "bot", "bot2", " bot "},
            mn \in {"none", "self", "other", "all", "padded", "nobody", "bot2",
                    "other+self"}}

\* accounts with a self id, with a blank one and without
MentionInit ==
    /\ ClientInit
    /\ HostIdle
    /\ dmPolicy = "pairing"
    /\ groupPolicy = "allowlist"
    /\ groups = NoGroups
    /\ allowFrom = AllowFrom
    /\ groupAllowFrom = GroupAllowFrom
    /\ requireMention = "unset"
    /\ eventCap = MaxEvents
    /\ HandlersIdle
    /\ accountSelfId \in {"", " ", SelfId}
    /\ targetCall = NotAsked

MentionNext == \E ev \in MentionEvents : OnEvent(ev)

\* the self id and the mention segments of handleOneBotMessage
MentionSpec == MentionInit /\ [][MentionNext]_vars

\* Allowlists as they are configured and as the pairing store returns them:
\* empty, plain, with the wildcard, with blanks, upper case and prefixes
AllowLists ==
    {{}, {"u1"}, {"U2"}, {"*"}, {" * ", "u1"}, {" "}, {"user:U1", " u3 "},
     {"onebot:DM:u3"}}

\* allowlist accounts: both policies on allowlist, every pair of configured
\* lists
AllowInit ==
    /\ ClientInit
    /\ HostIdle
    /\ dmPolicy = "allowlist"
    /\ groupPolicy = "allowlist"
    /\ groups = NoGroups
    /\ allowFrom \in AllowLists
    /\ groupAllowFrom \in AllowLists
    /\ requireMention = "false"
    /\ eventCap = MaxGated
    /\ HandlersIdle
    /\ accountSelfId = SelfId
    /\ targetCall = NotAsked

\* a private or a group message of one of three senders, and the store's answer
AllowNext ==
    \/ \E d \in {"private", "group"}, u \in {"u1", "U2", "u3"} :
          OnEvent(Event("message", d, u, "g1", "", "", TRUE, "none"))
    \/ \E i \in EventIds, stored \in AllowLists :
          StoreRead(i, stored, Answer(FALSE, TRUE, FALSE, TRUE, FALSE, FALSE))

\* the allowlists of handleOneBotMessage, under every configuration of them
AllowSpec == AllowInit /\ [][AllowNext]_vars

\* the monitor's handlers alone, the client standing still
MonitorSpec == MonitorInit /\ [][MonitorNext]_vars

\* account.config.groups with keys of every kind and mention settings
GateGroupConfigs ==
    GroupConfigs \cup
    {[k \in {"g1"} |-> GroupEntry(TRUE, "false")],
     [k \in {"g1"} |-> GroupEntry(TRUE, "true")],
     [k \in {"*"} |-> GroupEntry(TRUE, "unset")],
     [k \in {"*"} |-> GroupEntry(FALSE, "unset")],
     [k \in {"channel:gd:ch"} |-> GroupEntry(TRUE, "unset")],
     [k \in {"g1", "*"} |-> IF k = "g1" THEN GroupEntry(TRUE, "false")
                            ELSE GroupEntry(TRUE, "true")]}

\* The accounts one event's path is followed under: every DM policy with an
\* empty, a plain and a wildcard allowlist; every group policy with every
\* group configuration; every group configuration with the account-level
\* mention setting on and off.
GateInit ==
    /\ ClientInit
    /\ HostIdle
    /\ \/ /\ dmPolicy \in {"pairing", "allowlist", "open", "disabled"}
          /\ allowFrom \in {{}, {"u1"}, {"u1", "*"}}
          /\ dmPolicy = "open" => "*" \in allowFrom
          /\ groupPolicy = "allowlist"
          /\ groups = NoGroups
          /\ requireMention = "unset"
       \/ /\ dmPolicy = "pairing"
          /\ allowFrom = {"u1"}
          /\ groupPolicy \in {"allowlist", "open", "disabled"}
          /\ groups \in GateGroupConfigs
          /\ requireMention = "unset"
       \/ /\ dmPolicy = "pairing"
          /\ allowFrom = {"u1"}
          /\ groupPolicy = "open"
          /\ groups \in GateGroupConfigs
          /\ requireMention \in {"true", "false"}
    /\ eventCap = MaxGated
    /\ PipeIdle

GateNext ==
    \/ \E ev \in GateEvents : OnEvent(ev)
    \/ \E i \in EventIds, stored \in StoreContents, a \in HostAnswers :
          StoreRead(i, stored, a)
    \/ \E i \in EventIds, created \in BOOLEAN : UpsertDone(i, created)
    \/ \E i \in EventIds, ok \in BOOLEAN : PairingReplyDone(i, ok)
    \/ \E i \in EventIds : RecordDone(i)
    \/ \E i \in EventIds, replies \in 0..1 : DispatchDone(i, replies)

\* one event's way through handleOneBotMessage, under every account
GateSpec == GateInit /\ [][GateNext]_vars

\* Every handler returns, and a timeout that is due is run by the event loop:
\* the timer callback is enabled whenever the loop is between two handlers,
\* so it is strong fairness that says it is not passed over for ever.
FairSpec == Spec /\ SF_vars(ReconnectFire) /\ WF_vars(Return)

\* ------------------------------------------------------------- gateway
MaxTraced == 2       \* event frames the two traces keep

Urls == {Url(ok, token) : ok \in BOOLEAN, token \in {"", "secret"}} \cup {NoUrl}
Tokens == {"", "tok"}

\* mutant: the configuration is looked at after the client is registered
StartAccount_RegistersFirst ==
    /\ Ready
    /\ monitor = "idle"
    /\ registered' = TRUE
    /\ secondMonitor' = [secondMonitor EXCEPT !.holds = FALSE]
    /\ IF ~Configured
       THEN /\ monitor' = "unconfigured"
            /\ UNCHANGED <<clientVars, clientLogs, gatewayLogs>>
       ELSE /\ gatewayLogs' = gatewayLogs \cup {wsUrl}
            /\ StartBody
            /\ monitor' = IF aborted THEN "released"
                          ELSE IF wsUrl.ok THEN "waiting" ELSE "threw"
    /\ UNCHANGED <<pipeVars, wsUrl, accessToken, traceCap, arrived, delivered>>

\* gateway.startAccount: the test of account.configured and account.wsUrl,
\* the log line with account.wsUrl, then monitorOneBotProvider (which tests
\* account.wsUrl once more) up to its await: setOneBotClient,
\* client.start(), the two abort listeners.  It throws when the account has
\* no URL and when client.start() does, and is released at once when the
\* signal is already aborted.
StartAccount ==
    /\ Ready
    /\ monitor = "idle"
    /\ IF ~Configured
       THEN /\ monitor' = "unconfigured"
            /\ UNCHANGED <<clientVars, clientLogs, gatewayLogs, registered,
                           secondMonitor>>
       ELSE /\ gatewayLogs' = gatewayLogs \cup {wsUrl}
            /\ registered' = TRUE
            /\ secondMonitor' = [secondMonitor EXCEPT !.holds = FALSE]
            /\ StartBody
            /\ monitor' = IF aborted THEN "released"
                          ELSE IF wsUrl.ok THEN "waiting" ELSE "threw"
    /\ UNCHANGED <<pipeVars, wsUrl, accessToken, traceCap, arrived, delivered>>

\* mutant: the waiting promise is resolved, the client is left running
SignalAbort_ResolvesOnly ==
    /\ Ready
    /\ ~aborted
    /\ monitor \in {"idle", "waiting", "threw"}
    /\ aborted' = TRUE
    /\ monitor' = IF monitor = "waiting" THEN "released" ELSE monitor
    /\ Did("abort", "-")
    /\ UNCHANGED <<stopped, reconnectTimer, liveTimers, ws, sock, pending,
                   timeouts, outcome, settles, registered, secondMonitor>>
    /\ UNCHANGED <<listening, actionCounter, frames, ghostVars, pipeVars,
                   wsUrl, accessToken, gatewayLogs, traceCap>>

\* The host aborts the signal.  The listeners run in the order they were
\* registered: the client's (stop()), the monitor's stop (client.stop() once
\* more, which finds nothing left to do, and deleteOneBotClient), and the one
\* that resolves the promise the monitor waits on.  Before the monitor has
\* started, or after client.start() threw, no listener is registered.
SignalAbort ==
    /\ Ready
    /\ ~aborted
    /\ monitor \in {"idle", "waiting", "threw"}
    /\ aborted' = TRUE
    /\ IF monitor = "waiting"
       THEN /\ StopBody
            /\ registered' = FALSE
            /\ secondMonitor' = [secondMonitor EXCEPT !.holds = FALSE]
            /\ monitor' = "released"
       ELSE UNCHANGED <<stopped, reconnectTimer, liveTimers, ws, sock, pending,
                        timeouts, outcome, settles, registered, monitor,
                        secondMonitor>>
    /\ Did("abort", IF monitor = "waiting" THEN "stop" ELSE "-")
    /\ UNCHANGED <<listening, actionCounter, frames, ghostVars, pipeVars,
                   wsUrl, accessToken, gatewayLogs, traceCap>>

\* sendOneBotMessage(account, target, text): the target must parse, the
\* registry must hold a client under the account's id, a text that is blank
\* after trimming is not sent, anything else goes to sendAction of the client
\* the registry gave; what the second monitor's client does with it is not
\* followed
SendOneBotMessage(valid, blank, throws) ==
    IF ~valid \/ ~registered \/ blank \/ secondMonitor.holds
    THEN /\ Did("sendText", IF ~valid THEN "invalid_target"
                            ELSE IF ~registered THEN "no_client"
                            ELSE IF blank THEN "blank" ELSE "second_client")
         /\ UNCHANGED <<aborted, listening, sock, ws, stopped, reconnectTimer,
                        liveTimers, actionCounter, pending, timeouts, frames,
                        outcome, settles>>
    ELSE SendActionBody("send_message", throws)

\* onebotOutbound.sendText: the account is resolved and must be configured
SendText(valid, blank, throws) ==
    /\ Ready
    /\ UNCHANGED <<outerVars, ghostVars>>
    /\ IF ~Configured
       THEN /\ ~throws
            /\ Did("sendText", "not_configured")
            /\ UNCHANGED <<aborted, listening, sock, ws, stopped, reconnectTimer,
                           liveTimers, actionCounter, pending, timeouts, frames,
                           outcome, settles>>
       ELSE SendOneBotMessage(valid, blank, throws)

\* A second monitorOneBotProvider call for the same account id, with a
\* signal of its own, up to its await: its client replaces whatever the
\* registry held under the id
SecondStart ==
    /\ Ready
    /\ Configured
    /\ secondMonitor.pc = "idle"
    /\ secondMonitor' = [pc |-> "waiting", holds |-> TRUE]
    /\ registered' = TRUE
    /\ UNCHANGED <<clientVars, ghostVars, pipeVars, wsUrl, accessToken,
                   gatewayLogs, monitor, traceCap>>

\* the second monitor's signal is aborted: its stop closes its own client and
\* deletes the registry's entry for the account id
SecondAbort ==
    /\ Ready
    /\ secondMonitor.pc = "waiting"
    /\ secondMonitor' = [pc |-> "released", holds |-> FALSE]
    /\ registered' = FALSE
    /\ UNCHANGED <<clientVars, ghostVars, pipeVars, wsUrl, accessToken,
                   gatewayLogs, monitor, traceCap>>

\* monitorOneBotProvider returns { stop } once the promise it awaits is resolved
MonitorReturn ==
    /\ Ready
    /\ monitor = "released"
    /\ monitor' = "returned"
    /\ UNCHANGED <<clientVars, ghostVars, pipeVars, wsUrl, accessToken,
                   gatewayLogs, registered, traceCap, secondMonitor>>

\* the stop function monitorOneBotProvider returned is called
StopHandle ==
    /\ Ready
    /\ monitor = "returned"
    /\ StopBody
    /\ registered' = FALSE
    /\ secondMonitor' = [secondMonitor EXCEPT !.holds = FALSE]
    /\ Did("stop", IF stopped THEN "again" ELSE "first")
    /\ UNCHANGED <<aborted, listening, actionCounter, frames, ghostVars, pipeVars,
                   wsUrl, accessToken, gatewayLogs, monitor, traceCap>>

\* one account started by the gateway, for every URL and token configured
GatewayInit ==
    /\ ClientInit
    /\ dmPolicy = "pairing"
    /\ groupPolicy = "allowlist"
    /\ groups = NoGroups
    /\ allowFrom = AllowFrom
    /\ requireMention = "unset"
    /\ eventCap = MaxEvents
    /\ PipeIdle
    /\ wsUrl \in Urls
    /\ accessToken \in Tokens
    /\ gatewayLogs = {}
    /\ monitor = "idle"
    /\ registered = FALSE
    /\ traceCap = MaxTraced
    /\ secondMonitor = NoSecond

GatewayNext ==
    \/ StartAccount
    \/ SignalAbort
    \/ MonitorReturn
    \/ StopHandle
    \/ \E valid \in BOOLEAN, blank \in BOOLEAN, throws \in BOOLEAN :
          SendText(valid, blank, throws)
    \/ \E e \in Echoes : ActionTimeout(e)
    \/ \E s \in SocketIds : SocketOpen(s)
    \/ \E s \in SocketIds, f \in Frames : SocketMessage(s, f)
    \/ \E s \in SocketIds : SocketError(s)
    \/ \E s \in SocketIds : SocketClose(s)
    \/ ReconnectFire
    \/ Return

\* the client as the gateway runs it: started once, stopped by the signal
GatewaySpec == GatewayInit /\ [][GatewayNext]_vars

RegistryNext ==
    \/ StartAccount
    \/ SignalAbort
    \/ MonitorReturn
    \/ StopHandle
    \/ SecondStart
    \/ SecondAbort
    \/ \E valid \in BOOLEAN, blank \in BOOLEAN, throws \in BOOLEAN :
          SendText(valid, blank, throws)
    \/ \E s \in SocketIds : SocketOpen(s)
    \/ \E s \in SocketIds : SocketClose(s)
    \/ ReconnectFire
    \/ Return

\* two monitors of one account id and the registry they share
RegistrySpec == GatewayInit /\ [][RegistryNext]_vars

\* ---------------------------------------------------------- downstream
\* The handlers and the client together: what a handler sends goes through
\* sendOneBotMessage and the client, and may fail there.

\* mutant: a send that fails at once takes the account's client off the registry
SendFromHandler_Unregisters(i, throws) ==
    /\ Ready
    /\ handlers[i].pc \in {"pairingReply", "deliver"}
    /\ SendOneBotMessage(TRUE, FALSE, throws)
    /\ handlers' = [handlers EXCEPT ![i] =
                      IF last'.op = "send" /\ last'.out = "sent"
                      THEN [pc |-> IF @.pc = "deliver" THEN "deliverWait"
                                   ELSE "pairingReplyWait",
                            sender |-> @.sender, echo |-> actionCounter]
                      ELSE IF @.pc = "deliver" THEN Ended("done")
                      ELSE Dropped("dmPolicy")]
    /\ effects' = [effects EXCEPT ![i].sends = @ + 1]
    /\ registered' = (last'.op = "send" /\ last'.out = "sent")
    /\ UNCHANGED <<configVars, pairingStore, nEvents, lastInboundAt, ghostVars,
                   wsUrl, accessToken, gatewayLogs, monitor, traceCap,
                   secondMonitor>>

\* sendOneBotMessage called for the pairing reply (monitor.ts:290) or by
\* deliverOneBotReply: a call that throws at once is caught and logged, by
\* the catch at monitor.ts:301 or by the dispatcher's onError, and the
\* handler goes on; otherwise the handler waits for the action to settle
SendFromHandler(i, throws) ==
    /\ Ready
    /\ handlers[i].pc \in {"pairingReply", "deliver"}
    /\ SendOneBotMessage(TRUE, FALSE, throws)
    /\ handlers' = [handlers EXCEPT ![i] =
                      IF last'.op = "send" /\ last'.out = "sent"
                      THEN [pc |-> IF @.pc = "deliver" THEN "deliverWait"
                                   ELSE "pairingReplyWait",
                            sender |-> @.sender, echo |-> actionCounter]
                      ELSE IF @.pc = "deliver" THEN Ended("done")
                      ELSE Dropped("dmPolicy")]
    /\ effects' = [effects EXCEPT ![i].sends = @ + 1]
    /\ UNCHANGED <<configVars, pairingStore, nEvents, lastInboundAt, ghostVars,
                   hostVars>>

\* the action a handler waits for has settled: resolved with a response whose
\* status and retcode are fine (ok) or not, or rejected; every failure is
\* caught and logged, and the handler ends as it does after a success
SendSettled(i, ok) ==
    /\ handlers[i].pc \in {"pairingReplyWait", "deliverWait"}
    /\ outcome[handlers[i].echo] # Unsettled
    /\ ok => outcome[handlers[i].echo] = Resolved
    /\ handlers' = [handlers EXCEPT ![i] =
                      IF @.pc = "deliverWait" THEN Ended("done")
                      ELSE Dropped("dmPolicy")]
    /\ UNCHANGED <<configVars, pairingStore, nEvents, lastInboundAt, effects>>
    /\ UNCHANGED <<clientVars, ghostVars, hostVars>>

\* recordInboundSession reported a failure through onRecordError: it is
\* logged and the handler goes on to the dispatch
RecordFailed(i) ==
    /\ handlers[i].pc = "record"
    /\ handlers' = [handlers EXCEPT ![i].pc = "dispatch"]
    /\ UNCHANGED <<configVars, pairingStore, nEvents, lastInboundAt, effects>>
    /\ UNCHANGED <<clientVars, ghostVars, hostVars>>

\* the dispatcher has a reply and calls deliver
DeliverCalled(i) ==
    /\ handlers[i].pc = "dispatch"
    /\ handlers' = [handlers EXCEPT ![i].pc = "deliver"]
    /\ effects' = [effects EXCEPT ![i].dispatches = @ + 1]
    /\ UNCHANGED <<configVars, pairingStore, nEvents, lastInboundAt>>
    /\ UNCHANGED <<clientVars, ghostVars, hostVars>>

\* responses to the actions in flight
ResponseFrames == {Frame(TRUE, TRUE, TRUE, e, FALSE, FALSE) : e \in Echoes}

\* a configured account under the pairing policy, not started yet
DownstreamInit ==
    /\ GatewayInit
    /\ wsUrl = Url(TRUE, "")
    /\ accessToken = ""

\* The account is started and its socket opens, closes and reconnects; a
\* message of an unknown and of a listed sender arrive while it is open;
\* their handlers run, and what they send is answered, times out or is lost
\* with the connection.
DownstreamNext ==
    \/ StartAccount
    \/ \E s \in SocketIds : SocketOpen(s)
    \/ \E s \in SocketIds : SocketClose(s)
    \/ ReconnectFire
    \/ \E s \in SocketIds, f \in ResponseFrames : SocketMessage(s, f)
    \/ \E e \in Echoes : ActionTimeout(e)
    \/ Return
    \/ \E u \in {"u1", "u2"} :
          /\ Ready /\ IsOpen
          /\ OnEvent(Event("message", "private", u, "", "", "", TRUE, "none"))
    \/ \E i \in EventIds :
          StoreRead(i, {}, Answer(FALSE, TRUE, FALSE, TRUE, FALSE, FALSE))
    \/ \E i \in EventIds : UpsertDone(i, TRUE)
    \/ \E i \in EventIds, throws \in BOOLEAN : SendFromHandler(i, throws)
    \/ \E i \in EventIds, ok \in BOOLEAN : SendSettled(i, ok)
    \/ \E i \in EventIds : RecordDone(i)
    \/ \E i \in EventIds : RecordFailed(i)
    \/ \E i \in EventIds : DeliverCalled(i)

DownstreamSpec == DownstreamInit /\ [][DownstreamNext]_vars

\* ------------------------------------------------------------ outbound
\* What the caller of send_message is told.  A response frame carries, besides
\* the fields handlePayload looks at, the text of its status and its retcode:
\* absent, the number 0 or 1, or something that is not a number ("text").
ReplyFrames ==
    {[json |-> TRUE, obj |-> TRUE, status |-> TRUE, echo |-> e, type |-> FALSE,
      detail |-> FALSE, value |-> st, retcode |-> rc] :
        e \in Echoes, st \in {"ok", "failed", ""},
        rc \in {"absent", "0", "1", "text"}}

\* sendOneBotMessage after the await: response.status && response.status !==
\* "ok" throws, typeof response.retcode === "number" && response.retcode !== 0
\* throws, anything else returns
SendResult(response) ==
    IF response.value # "" /\ response.value # "ok" THEN "failed"
    ELSE IF response.retcode \in {"0", "1"} /\ response.retcode # "0" THEN "failed"
    ELSE "ok"

\* sendOneBotMessage is resumed by the settlement of the action it awaits,
\* before the event loop takes the next callback: a response goes through the
\* two tests, a rejection is thrown on to the caller
SendResumed(e) ==
    /\ last.arg = e
    /\ \/ last.op = "message" /\ last.out = "resolved"
       \/ last.op = "timeout"
    /\ DidWith("sendText",
               IF outcome[e] = Resolved THEN SendResult(last.payload) ELSE "failed",
               e, last.payload)
    /\ UNCHANGED <<aborted, listening, sock, ws, stopped, reconnectTimer, liveTimers,
                   actionCounter, pending, timeouts, frames, outcome, settles>>
    /\ UNCHANGED <<outerVars, ghostVars>>

OutboundNext ==
    \/ StartAccount
    \/ \E s \in SocketIds : SocketOpen(s)
    \/ \E s \in SocketIds : SocketClose(s)
    \/ ReconnectFire
    \/ \E valid \in BOOLEAN, blank \in BOOLEAN, throws \in BOOLEAN :
          SendText(valid, blank, throws)
    \/ \E s \in SocketIds, f \in ReplyFrames : SocketMessage(s, f)
    \/ \E e \in Echoes : ActionTimeout(e)
    \/ \E e \in Echoes : SendResumed(e)
    \/ Return

\* a started account whose send_message calls are answered or time out
OutboundSpec == DownstreamInit /\ [][OutboundNext]_vars

\* ------------------------------------------------------------- claims
clientState == <<aborted, listening, sock, ws, stopped, reconnectTimer, liveTimers,
                 actionCounter, pending, timeouts, frames, outcome, settles>>

\* C10: for one account the handling of two events never overlaps: at most
\* one handleOneBotMessage call is between its start and its end at any time.
C10_HandlingNeverOverlaps == Cardinality({i \in EventIds : Active(i)}) <= 1

Created == \E s \in SocketIds : sock[s] # "connecting" /\ sock'[s] = "connecting"

\* C1: every sendAction call settles exactly once. A call that passed the
\* connectivity check is either still pending, with its timeout armed and
\* nothing settled, or has left the pending set with exactly one resolve or
\* reject made; no call ever sees a second one.
C1_SettlesExactlyOnce ==
    \A e \in Echoes :
        /\ settles[e] <= 1
        /\ (settles[e] = 1) = (outcome[e] # Unsettled)
        /\ (e \in PendingSet) = (e \in TimerSet)
        /\ e >= actionCounter => settles[e] = 0 /\ e \notin PendingSet
        /\ e < actionCounter => (settles[e] = 1) # (e \in PendingSet)

C1_Witness ==
    \E e1, e2 \in Echoes :
        /\ outcome[e1].kind = "resolved" /\ settles[e1] = 1
        /\ outcome[e2].kind \in {"timeout", "closed", "stopped", "send_failed"}
        /\ settles[e2] = 1

\* C2: when a socket of a non-stopped client closes, every action pending at
\* that moment is rejected with the connection-closed error exactly once, the
\* pending set is empty afterwards and one reconnect timer is outstanding;
\* there is never more than one, however many sockets close before it fires.
C2_CloseFailsPendingAndSchedulesOne ==
    /\ [](liveTimers <= 1)
    /\ [][(last'.op = "close" /\ ~stopped) =>
            /\ \A e \in PendingSet : outcome'[e] = Err("closed", "") /\ settles'[e] = 1
            /\ PendingSet' = {}
            /\ TimerSet' = {}
            /\ reconnectTimer'
            /\ liveTimers' = 1]_vars

\* two sockets have closed (slot 2 was taken while slot 1 was alive, none is
\* alive now), an action was failed by a close and one timer is outstanding
C2_Witness ==
    /\ last.op = "close"
    /\ ~stopped
    /\ ws = 2
    /\ \A s \in SocketIds : ~Live(s)
    /\ \E e \in Echoes : outcome[e].kind = "closed"
    /\ reconnectTimer
    /\ liveTimers = 1

\* C3: when the timeout of a pending action fires, the action is rejected with
\* the timeout error naming it and leaves the pending set; a response carrying
\* the echo of a timed-out action changes nothing and settles nothing.
C3_TimeoutThenLateResponseIsNoop ==
    /\ [][\A e \in Echoes : (last'.op = "timeout" /\ last'.arg = e) =>
            /\ e \in PendingSet
            /\ timeouts[e] \in ActionNames
            /\ outcome'[e] = Err("timeout", timeouts[e])
            /\ settles'[e] = 1
            /\ e \notin PendingSet'
            /\ e \notin TimerSet']_vars
    /\ [][(/\ last'.op = "message"
            /\ last'.arg \in Echoes
            /\ outcome[last'.arg].kind = "timeout")
                => last'.out = "unmatched" /\ UNCHANGED clientState]_vars

C3_Witness ==
    /\ last.op = "message"
    /\ last.out = "unmatched"
    /\ last.arg \in Echoes
    /\ outcome[last.arg].kind = "timeout"
    /\ outcome[last.arg].action = "send_message"

\* C4: no action survives a reconnect: when a socket is created the pending
\* set is empty, a request frame is sent at most once, and a response resolves
\* an action only on the socket the action was sent on.
C4_NoActionSurvivesReconnect ==
    /\ [](\A e \in Echoes : frames[e] <= 1)
    /\ [][Created => PendingSet = {}]_vars
    /\ [][\A s \in SocketIds, f \in Frames :
            (SocketMessage(s, f) /\ last'.out = "resolved") => pending[f.echo] = s]_vars

\* C5: once the client is stopped it stays stopped, creates no socket and has
\* no reconnect timer outstanding, whatever is called or fires afterwards;
\* start() with the abort signal already aborted creates no socket either.
C5_StoppedNeverReconnects ==
    /\ [](stopped => ~reconnectTimer /\ liveTimers = 0 /\ ws = NoSocket)
    /\ [][stopped => stopped' /\ ~Created]_vars
    /\ [][(last'.op \in {"stop", "abort"} /\ (last'.op = "abort" => listening))
            => stopped']_vars
    /\ [][(last'.op = "start" /\ aborted) => stopped' /\ ~Created]_vars

\* start() was called on a stopped client whose old socket is still closing
C5_Witness ==
    /\ stopped
    /\ last.op = "start"
    /\ \E s \in SocketIds : sock[s] = "closing"

\* C6: after a socket of a non-stopped client has closed, a new connection
\* attempt follows (a socket is created by the reconnect timer) unless the
\* client is stopped first; slots are reused, so this holds for every close.
C6_CloseLeadsToReconnect ==
    (last.op = "close" /\ ~stopped)
        ~> (stopped \/ (last.op = "reconnect" /\ ws # NoSocket /\ sock[ws] = "connecting"))

\* the timer has fired after the close of a socket that never opened and
\* while an action sent earlier was failed by that close
C6_Witness ==
    /\ last.op = "reconnect"
    /\ ~stopped
    /\ ws # NoSocket
    /\ sock[ws] = "connecting"
    /\ \E e \in Echoes : outcome[e].kind = "closed"

\* C7: stop() sets the stop flag, leaves no reconnect timer, no socket handle
\* and no pending action, every formerly pending action being rejected once;
\* stop() on a stopped client changes nothing and rejects nothing.
C7_StopIdempotent ==
    /\ [][last'.op = "stop" =>
            /\ stopped'
            /\ ~reconnectTimer'
            /\ liveTimers' = 0
            /\ ws' = NoSocket
            /\ PendingSet' = {}
            /\ TimerSet' = {}
            /\ \A e \in PendingSet : outcome'[e] = Err("stopped", "") /\ settles'[e] = 1]_vars
    /\ [][(last'.op = "stop" /\ stopped) => UNCHANGED clientState]_vars

C7_Witness ==
    /\ last.op = "stop"
    /\ last.out = "again"
    /\ \E e \in Echoes : outcome[e].kind = "stopped"
    /\ \E s \in SocketIds : Live(s)

\* C8: sendAction with the socket absent or not open fails at once with the
\* not-connected error: no frame, no pending entry, no timer, same counter.
C8_NotConnectedFailsFast ==
    [][(last'.op = "send" /\ (ws = NoSocket \/ sock[ws] # "open")) =>
            /\ last'.out = "not_connected"
            /\ UNCHANGED clientState]_vars

\* between a close and the reconnect: the handle refers to a closed socket
C8_Witness ==
    /\ last.op = "send"
    /\ last.out = "not_connected"
    /\ ws # NoSocket
    /\ sock[ws] = "closed"
    /\ reconnectTimer

\* C9: a frame is handled as exactly one of response, event or dropped. An
\* object with string status and string echo is a response and never reaches
\* the event callback; another object with string type and detail_type is
\* forwarded; anything else is dropped. Only a matched response changes the
\* client; after every frame the sockets are as before.
C9_FrameHandledOneWay ==
    [][last'.op = "message" => \A f \in Frames : OnMessage(f) =>
        LET resp == f.json /\ f.obj /\ f.status /\ f.echo # NotAString
            ev == f.json /\ f.obj /\ ~resp /\ f.type /\ f.detail
        IN /\ resp => last'.out \in {"resolved", "unmatched"}
           /\ ev => last'.out = "onEvent"
           /\ ~f.json => last'.out = "parse_error"
           /\ (f.json /\ ~resp /\ ~ev) => last'.out = "dropped"
           /\ last'.out = "resolved" => f.echo \in PendingSet
           /\ last'.out # "resolved" => UNCHANGED clientState
           /\ UNCHANGED <<sock, ws, stopped, reconnectTimer, liveTimers>>]_vars

\* an unparseable frame arrived while an action was pending on the open socket
C9_Witness ==
    /\ last.op = "message"
    /\ last.out = "parse_error"
    /\ IsOpen
    /\ PendingSet # {}

\* C11: within one client the event callback is called with the event frames
\* in the order the sockets delivered them, once for each frame: the trace of
\* the callback's calls is the trace of the arrivals.
C11_EventsDeliveredInArrivalOrder == delivered = arrived

\* two different event frames have arrived and were handed on while an
\* action was pending
C11_Witness ==
    /\ Len(arrived) = 2
    /\ arrived[1] # arrived[2]
    /\ Len(delivered) = 2
    /\ PendingSet # {}

\* C19: no log line shows an access token: in every URL that was logged the
\* access_token value is the redaction marker, whatever URL and token are
\* configured.
C19_NoTokenInLogs ==
    \A u \in gatewayLogs \cup clientLogs : u.token \in {"", Redacted}

\* C20: the monitor's wait ends only by the abort of the signal, and when it
\* ends stop() has run on the client: the flag is set, no socket is open or
\* connecting, no reconnect timer is left and every pending action has been
\* rejected.  The wait is never over while the signal is not aborted.
C20_AbortStopsThenResolves ==
    /\ [](monitor \in {"released", "returned"} => aborted)
    /\ [][(monitor = "waiting" /\ monitor' # "waiting") =>
            /\ ~aborted /\ aborted'
            /\ monitor' = "released"
            /\ stopped'
            /\ ws' = NoSocket
            /\ \A s \in SocketIds : sock'[s] \notin {"connecting", "open"}
            /\ ~reconnectTimer' /\ liveTimers' = 0
            /\ PendingSet' = {} /\ TimerSet' = {}
            /\ \A e \in PendingSet :
                  outcome'[e] = Err("stopped", "") /\ settles'[e] = 1]_vars

\* the signal was aborted while an action was pending on the open socket
C20_Witness ==
    /\ monitor = "released"
    /\ last.op = "abort"
    /\ stopped
    /\ \E e \in Echoes : outcome[e].kind = "stopped"
    /\ \E s \in SocketIds : sock[s] = "closing"
C13_PairingReplyOnlyWhenCreated ==
    /\ [](\A i \in EventIds :
            /\ dmPolicy # "pairing" => effects[i].upserts = 0
            /\ effects[i].upserts > 0 =>
                  /\ handlers[i].pc \in {"pairingReply", "dropped"}
                  /\ effects[i].upserts = 1
                  /\ effects[i].sends <= effects[i].created
                  /\ effects[i].created <= effects[i].upserts
                  /\ effects[i].records = 0
                  /\ effects[i].dispatches = 0)
    /\ [][nEvents' = nEvents =>
          \A i \in EventIds :
            handlers'[i] # handlers[i] =>
              /\ (/\ handlers[i].pc = "readStore"
                  /\ handlers[i].detail = "private"
                  /\ dmPolicy # "open")
                 => \A stored \in StoreContents, a \in HostAnswersFew :
                       (/\ handlers'[i] = AfterStoreRead(handlers[i], stored, a)
                        /\ ~IsAllowed(MergeAllowlists(NormalizeAllowlist(allowFrom),
                                                      NormalizeAllowlist(stored)),
                                      handlers[i].sender))
                       => /\ effects'[i] = NoEffects
                          /\ IF dmPolicy = "pairing"
                             THEN handlers'[i] = [pc |-> "upsert",
                                                  sender |-> handlers[i].sender]
                             ELSE handlers'[i].pc = "dropped"
              /\ handlers[i].pc = "upsert"
                 => /\ effects'[i].upserts = 1
                    /\ IF effects'[i].created = 1
                       THEN handlers'[i] =
                              [pc |-> "pairingReply", sender |-> handlers[i].sender,
                               target |-> "user:" \o handlers[i].sender]
                       ELSE handlers'[i].pc = "dropped"
              /\ handlers[i].pc = "pairingReply"
                 => /\ handlers'[i].pc = "dropped"
                    /\ effects'[i].sends = 1]_vars

\* two direct messages of the same stranger under "pairing": the first made
\* the request and was answered with the code, the second found the request
\* and was dropped in silence
C13_Witness ==
    /\ dmPolicy = "pairing"
    /\ nEvents = 2
    /\ handlers[1] = Dropped("dmPolicy") /\ handlers[2] = Dropped("dmPolicy")
    /\ pairingStore = {"u2"}
    /\ effects[1].created = 1 /\ effects[1].sends = 1
    /\ effects[2].upserts = 1 /\ effects[2].created = 0 /\ effects[2].sends = 0

\* C14: the group key of a group event is its raw group id and that of a
\* channel event the address channel:<guild>:<channel>; a group or channel
\* event is dropped as "not allowlisted" exactly when group entries are
\* configured and neither its group key nor "*" is among their keys, whatever
\* the group policy, the sender and the stores say; with no entries
\* configured none is dropped so.
C14_GroupKeyAdmission ==
    [][\A i \in EventIds :
         handlers'[i] # handlers[i] =>
           /\ handlers[i].pc = "idle" =>
                 \A ev \in GateEvents :
                    (/\ ev.type = "message"
                     /\ handlers'[i] = AfterShapeChecks(ev)
                     /\ handlers'[i].pc = "readStore")
                    => handlers'[i].groupKey =
                         (IF ev.detail = "channel"
                          THEN "channel:" \o ev.guild \o ":" \o ev.channel
                          ELSE IF ev.detail = "group" THEN ev.group ELSE "")
           /\ (/\ handlers[i].pc = "readStore"
               /\ handlers[i].detail \in {"group", "channel"})
              => (handlers'[i] = Dropped("not allowlisted"))
                   = (/\ DOMAIN groups # {}
                      /\ handlers[i].groupKey \notin DOMAIN groups
                      /\ "*" \notin DOMAIN groups)]_vars

\* with an entry for g1 only, a message in another group was dropped as not
\* allowlisted, under a group policy that would have dropped it anyway
C14_Witness ==
    /\ DOMAIN groups = {"g1"}
    /\ groupPolicy = "disabled"
    /\ nEvents = 1
    /\ handlers[1] = Dropped("not allowlisted")

\* C15: in a group or channel where mention is required, an event that
\* carries no mention segment of the bot (or of everybody), whose text
\* matches no mention pattern and that is not an authorized control command
\* is not admitted, and a call dropped for want of a mention records and
\* dispatches nothing; where the group's own entry sets requireMention to
\* false no event is dropped for want of a mention; a direct message never is.
C15_MentionGating ==
    /\ [](\A i \in EventIds :
            handlers[i] = Dropped("no mention") => effects[i] = NoEffects)
    /\ [][\A i \in EventIds :
            handlers'[i] # handlers[i] =>
              /\ handlers[i].pc = "idle" =>
                    \A ev \in GateEvents :
                       (/\ ev.type = "message"
                        /\ handlers'[i] = AfterShapeChecks(ev)
                        /\ handlers'[i].pc = "readStore")
                       => handlers'[i].signals.mentionedSelf
                            = (ev.mention \in {"self", "all"})
              /\ handlers[i].pc = "readStore" =>
                    LET h == handlers[i]
                        grouplike == h.detail \in {"group", "channel"}
                    IN /\ ~grouplike => handlers'[i] # Dropped("no mention")
                       /\ (/\ grouplike
                           /\ h.groupKey \in DOMAIN groups
                           /\ groups[h.groupKey].requireMention = "false")
                          => handlers'[i] # Dropped("no mention")
                       /\ (/\ grouplike
                           /\ ~h.signals.mentionedSelf
                           /\ handlers'[i].pc # "dropped"
                           /\ ResolveRequireMention(groups, h.groupKey, requireMention))
                          => \A stored \in StoreContents, a \in HostAnswers :
                                (/\ ~(a.regexes /\ a.textMentioned)
                                 /\ ~(a.textCommands /\ a.control /\ a.auth))
                                => handlers'[i] # AfterStoreRead(h, stored, a)]_vars

\* a group message without a mention was dropped in a group whose entry
\* requires one, the account's own setting notwithstanding
C15_Witness ==
    /\ groups = [k \in {"g1"} |-> GroupEntry(TRUE, "true")]
    /\ requireMention = "false"
    /\ nEvents = 1
    /\ handlers[1] = Dropped("no mention")

\* C16: a group or channel event the control-command gate says to block
\* never gets past the gate, and a call dropped there records and dispatches
\* nothing; a direct message is never dropped by the gate, and when it goes
\* on its context carries the gate's commandAuthorized answer.
C16_CommandGate ==
    /\ [](\A i \in EventIds :
            handlers[i] = Dropped("control command") => effects[i] = NoEffects)
    /\ [][\A i \in EventIds :
            (handlers'[i] # handlers[i] /\ handlers[i].pc = "readStore") =>
               LET h == handlers[i]
               IN IF h.detail \in {"group", "channel"}
                  THEN handlers'[i].pc # "dropped" =>
                         \A stored \in StoreContents, a \in HostAnswers :
                            a.block => handlers'[i] # AfterStoreRead(h, stored, a)
                  ELSE /\ handlers'[i] # Dropped("control command")
                       /\ handlers'[i].pc = "record" =>
                            \A stored \in StoreContents, a \in HostAnswers :
                               handlers'[i].ctx.CommandAuthorized # a.auth
                               => handlers'[i] # AfterStoreRead(h, stored, a)]_vars

\* a message in a group open to every sender was dropped at the command gate
C16_Witness ==
    /\ groupPolicy = "open"
    /\ nEvents = 1
    /\ handlers[1] = Dropped("control command")

\* C17: a call that ended at a policy check has made no session record and
\* no dispatch, and has sent nothing, except that a call dropped under
\* dmPolicy "pairing" may have sent the one reply with the pairing code of
\* the request it created.
C17_DroppedEventsAreSilent ==
    \A i \in EventIds :
       handlers[i].pc = "dropped" =>
          /\ effects[i].records = 0
          /\ effects[i].dispatches = 0
          /\ effects[i].sends <= 1
          /\ effects[i].sends = 1 =>
                /\ dmPolicy = "pairing"
                /\ handlers[i] = Dropped("dmPolicy")
                /\ effects[i].created = 1

\* a stranger's direct message was dropped after the pairing code was sent
C17_Witness ==
    /\ nEvents = 1
    /\ handlers[1].pc = "dropped"
    /\ effects[1].sends = 1

\* C18: an event that passes every check is recorded once and then
\* dispatched once, with the context built at the end of the checks: its
\* SenderId is the sender of the event, its ChatType is direct, group or
\* channel after the detail type, and From, To and OriginatingTo are all
\* "onebot:" followed by user:<sender>, group:<group> or
\* channel:<guild>:<channel>.
C18_OneRecordThenOneDispatch ==
    /\ [](\A i \in EventIds :
            /\ handlers[i].pc = "record" => effects[i] = NoEffects
            /\ handlers[i].pc = "dispatch" =>
                  /\ effects[i].records = 1 /\ effects[i].dispatches = 0
                  /\ effects[i].sends = 0
            /\ handlers[i].pc = "done" =>
                  effects[i].records = 1 /\ effects[i].dispatches = 1)
    /\ [][\A i \in EventIds :
            handlers'[i] # handlers[i] =>
              /\ handlers[i].pc = "idle" =>
                    \A ev \in GateEvents :
                       (/\ ev.type = "message"
                        /\ handlers'[i] = AfterShapeChecks(ev)
                        /\ handlers'[i].pc = "readStore")
                       => /\ handlers'[i].sender = ev.user
                          /\ handlers'[i].detail = ev.detail
                          /\ handlers'[i].target =
                               (IF ev.detail = "private" THEN <<"user", ev.user>>
                                ELSE IF ev.detail = "group" THEN <<"group", ev.group>>
                                ELSE <<"channel", ev.guild, ev.channel>>)
              /\ (handlers[i].pc = "readStore" /\ handlers'[i].pc = "record") =>
                    LET h == handlers[i]
                        address ==
                          "onebot:" \o
                          (IF h.target[1] = "channel"
                           THEN "channel:" \o h.target[2] \o ":" \o h.target[3]
                           ELSE h.target[1] \o ":" \o h.target[2])
                        ctx == handlers'[i].ctx
                    IN /\ ctx.SenderId = h.sender
                       /\ ctx.ChatType = (IF h.detail = "private" THEN "direct"
                                          ELSE h.detail)
                       /\ ctx.From = address
                       /\ ctx.To = address
                       /\ ctx.OriginatingTo = address
              /\ handlers[i].pc = "record" =>
                    handlers'[i] = [handlers[i] EXCEPT !.pc = "dispatch"]
              /\ handlers[i].pc = "dispatch" => handlers'[i] = Ended("done")]_vars

\* the private message of the one allowlisted user under dmPolicy
\* "allowlist", recorded and about to be dispatched
C18_Witness ==
    /\ dmPolicy = "allowlist"
    /\ allowFrom = {"u1"}
    /\ nEvents = 1
    /\ handlers[1].pc = "dispatch"
    /\ handlers[1].ctx.SenderId = "u1"
    /\ handlers[1].ctx.ChatType = "direct"
    /\ handlers[1].ctx.From = "onebot:user:u1"
    /\ effects[1].records = 1

\* C29: a response frame whose echo names a pending action resolves that
\* action, and no other, with the frame itself: its entry and its timer go,
\* its promise is resolved once, and the entry, timer and promise of every
\* other action in flight are as they were, whichever of them was sent first.
C29_ResponsesMatchByEcho ==
    [][last'.op = "message" =>
         /\ \A f \in Frames :
               (OnMessage(f) /\ Classify(f) = "response" /\ f.echo \in PendingSet)
               => /\ last'.out = "resolved"
                  /\ last'.arg = f.echo
                  /\ last'.payload = f
         /\ last'.out = "resolved" =>
               LET e == last'.arg
               IN /\ e \in PendingSet
                  /\ pending'[e] = NoSocket
                  /\ timeouts'[e] = NoTimer
                  /\ outcome[e] = Unsettled /\ outcome'[e] = Resolved
                  /\ settles'[e] = 1
                  /\ \A x \in Echoes \ {e} :
                        /\ pending'[x] = pending[x]
                        /\ timeouts'[x] = timeouts[x]
                        /\ outcome'[x] = outcome[x]
                        /\ settles'[x] = settles[x]]_vars

\* two actions in flight on one socket, the second answered first
C29_Witness ==
    /\ last.op = "message" /\ last.out = "resolved" /\ last.arg = 1
    /\ outcome[1] = Resolved
    /\ pending[0] # NoSocket /\ timeouts[0] # NoTimer /\ outcome[0] = Unsettled
    /\ pending[0] = ws

\* C30: the registry holds the account's client while the monitor waits for
\* the abort, and holds no entry once monitorOneBotProvider has returned,
\* whenever the signal was aborted, before the monitor started included.
C30_RegistryMatchesLifetime ==
    /\ monitor = "waiting" => registered
    /\ monitor = "returned" => ~registered

\* C21: for an account without a WebSocket URL the start of the monitor
\* raises the configuration error and that is all it does: no line is
\* logged, no client registered, no socket created, whatever is tried
\* afterwards; and sendText raises the configuration error without looking
\* the client up and without any send_message frame, then or ever.
C21_UnconfiguredFailsFast ==
    /\ [](~Configured =>
            /\ monitor \in {"idle", "unconfigured"}
            /\ ~registered
            /\ ws = NoSocket
            /\ \A s \in SocketIds : sock[s] = "none"
            /\ \A e \in Echoes : frames[e] = 0 /\ pending[e] = NoSocket
            /\ actionCounter = 0
            /\ gatewayLogs = {} /\ clientLogs = {})
    /\ [][~Configured =>
            /\ monitor' # monitor =>
                 /\ monitor' = "unconfigured"
                 /\ UNCHANGED <<clientVars, registered>>
            /\ last'.op \in {"sendText", "send"} =>
                 /\ last'.out = "not_configured"
                 /\ UNCHANGED <<clientState, registered>>]_vars

\* the account without a URL was started and then asked to send a text
C21_Witness ==
    /\ ~Configured
    /\ monitor = "unconfigured"
    /\ last.op = "sendText" /\ last.out = "not_configured"

\* C22: whenever parseOneBotTarget succeeds on a text, the canonical text of
\* the result (user:ID, group:ID, channel:GUILD:CHANNEL) parses to the very
\* same target; and normalizing a text twice gives what normalizing it once
\* gives, whether it parses or not.
C22_RoundTripStable ==
    targetCall.pc = "again" =>
        /\ targetCall.first.kind # "none" =>
              /\ targetCall.once = Render(targetCall.first)
              /\ targetCall.parsed = targetCall.first
        /\ targetCall.normalized = targetCall.once

\* a guild: address with the scheme, blanks and a slash went round
C22_Witness ==
    /\ targetCall.pc = "again"
    /\ targetCall.input = <<" ", "OneBot", ":", "guild", ":", "a", "/", "b">>
    /\ targetCall.first = ChannelTarget(<<"a">>, <<"b">>)
    /\ targetCall.once = <<"channel", ":", "a", ":", "b">>
    /\ targetCall.parsed = targetCall.first

\* C23: a channel target never has an empty guild or channel id.  A text
\* that, trimmed and without the scheme, begins with channel: or guild: is
\* no target when what follows has fewer than two non-empty segments between
\* its slashes and colons, and is the channel of the first two segments
\* otherwise: channel:a is none, onebot:channel:a/b is guild a, channel b.
C23_ChannelHasBothIds ==
    targetCall.pc = "again" =>
        /\ \A parsed \in {targetCall.first, targetCall.parsed} :
              parsed.kind = "channel" =>
                  parsed.guildId # <<>> /\ parsed.channelId # <<>>
        /\ LET raw == NormalizeRawTarget(targetCall.input)
               segs == Segments(SubSeq(raw, 3, Len(raw)))
           IN \A prefix \in {<<"channel", ":">>, <<"guild", ":">>} :
                 StartsWith(ToLowerCase(raw), prefix) =>
                     targetCall.first =
                         IF Len(segs) < 2 THEN NoParse
                         ELSE ChannelTarget(segs[1], segs[2])
        /\ targetCall.input = <<"channel", ":", "a">>
              => targetCall.first = NoParse
        /\ targetCall.input = <<"onebot", ":", "channel", ":", "a", "/", "b">>
              => targetCall.first = ChannelTarget(<<"a">>, <<"b">>)

\* onebot:channel:a/b was parsed
C23_Witness ==
    /\ targetCall.pc = "again"
    /\ targetCall.input = <<"onebot", ":", "channel", ":", "a", "/", "b">>
    /\ targetCall.first.kind = "channel"

\* C24: buildOneBotTargetFromEvent gives user:<userId> for the detail types
\* private, user and dm when there is a user id, group:<groupId> for group
\* when there is a group id, channel:<guildId>:<channelId> for channel when
\* there are both ids, and no target for every other detail type and every
\* missing id; the handler of an event without a target returns at once,
\* having touched nothing.
C24_FromEvent ==
    [][nEvents' = nEvents + 1 =>
         \A ev \in ShapeEvents :
            LET i == nEvents + 1
                built == BuildOneBotTargetFromEvent(ev.detail, ev.user, ev.group,
                                                    ev.guild, ev.channel)
                expected ==
                    IF ev.detail \in {"private", "user", "dm"} /\ ev.user # ""
                    THEN "user:" \o ev.user
                    ELSE IF ev.detail = "group" /\ ev.group # ""
                    THEN "group:" \o ev.group
                    ELSE IF /\ ev.detail = "channel"
                            /\ ev.guild # "" /\ ev.channel # ""
                    THEN "channel:" \o ev.guild \o ":" \o ev.channel
                    ELSE ""
            IN /\ expected = "" <=> built = NoTarget
               /\ built # NoTarget => TargetText(built) = expected
               /\ OnEvent(ev) =>
                    /\ expected = "" =>
                          /\ handlers'[i].pc = "ignored"
                          /\ UNCHANGED <<effects, pairingStore, clientVars,
                                         ghostVars, hostVars, configVars>>
                    /\ handlers'[i].pc = "readStore" =>
                          TargetText(handlers'[i].target) = expected
                    /\ handlers'[i] = Ignored("target") => expected = ""]_vars

\* a dm event got its user address, and a channel event without a guild id
\* was dropped for want of a target
C24_Witness ==
    /\ handlers[1].pc = "readStore"
    /\ handlers[1].detail = "dm"
    /\ TargetText(handlers[1].target) = "user:u1"
    /\ handlers[2] = Ignored("target")
    /\ effects[2] = NoEffects

\* C25: an event that fails a check is dropped there and the drop has no
\* side effect: no lastInboundAt update of the status sink, no session
\* record, no dispatch.
C25_DropsLeaveNoTrace ==
    \A i \in EventIds :
        handlers[i].pc \in {"ignored", "dropped"} =>
            /\ ~lastInboundAt[i]
            /\ effects[i].records = 0
            /\ effects[i].dispatches = 0

C26_GroupPolicyOrder ==
    /\ [](\A i \in EventIds :
            (/\ handlers[i].pc = "readStore"
             /\ handlers[i].detail \in {"group", "channel"}
             /\ groupPolicy = "allowlist") =>
            \* whatever the store and the host answer next
            \A stored \in StoreContents, a \in HostAnswers :
               LET h == handlers[i]
                   after == AfterStoreRead(h, stored, a)
                   listed == \/ h.sender \in allowFrom \cup stored
                             \/ "*" \in allowFrom \cup stored
               IN /\ after = Dropped("not allowed") => ~listed
                  /\ ~listed => after.pc = "dropped"
                  /\ ~listed =>
                        after.why \in {"not allowed", "not allowlisted", "disabled"})
    /\ [][\A i \in EventIds :
            (/\ handlers'[i] # handlers[i]
             /\ handlers[i].pc = "readStore"
             /\ handlers[i].detail \in {"group", "channel"}) =>
            LET h == handlers[i]
                now == handlers'[i]
                keys == DOMAIN groups
                keyed == keys = {} \/ h.groupKey \in keys \/ "*" \in keys
                matched == IF h.groupKey \in keys THEN {groups[h.groupKey]}
                           ELSE IF "*" \in keys THEN {groups["*"]} ELSE {}
                off == \E entry \in matched : ~entry.enabled
                policyDrops == {Dropped("disabled"), Dropped("groupPolicy=disabled"),
                                Dropped("not allowed"), Dropped("not allowlisted")}
            IN keyed =>
                 IF off THEN now = Dropped("disabled")
                 ELSE IF groupPolicy = "disabled"
                 THEN now = Dropped("groupPolicy=disabled")
                 ELSE IF groupPolicy = "allowlist"
                 THEN now \in policyDrops => now = Dropped("not allowed")
                 ELSE now \notin policyDrops]_vars

\* under groupPolicy open a sender that no list names was admitted to a group
\* whose entry is enabled
C26_Witness ==
    /\ groupPolicy = "open"
    /\ "g1" \in DOMAIN groups
    /\ handlers[1].pc = "record"
    /\ handlers[1].detail = "group"
    /\ handlers[1].sender = "u2"
    /\ handlers[1].ctx.To = "onebot:group:g1"

\* C28: a pairing reply or a reply delivery that fails, at once or when its
\* action settles, and a session record that fails are handled where they
\* happen: the step that handles the failure leaves the client's sockets,
\* its stop flag, its reconnect timer, the pending set and the registry entry
\* as they were and touches no other handler; the client is never stopped
\* and, once started, never off the registry, so later events are handled.
C28_DownstreamFailuresIsolated ==
    /\ [](/\ ~stopped /\ ~aborted
          /\ monitor = "waiting" => registered)
    /\ [][\A i \in EventIds :
            LET pc == handlers[i].pc
                waits == {"pairingReplyWait", "deliverWait"}
                failed == \/ pc \in {"pairingReply", "deliver"}
                             /\ handlers'[i].pc \notin waits
                          \/ pc \in waits
                          \/ pc = "record" /\ effects'[i].records = effects[i].records
            IN (handlers'[i] # handlers[i] /\ failed) =>
                 /\ UNCHANGED <<stopped, aborted, listening, sock, ws, reconnectTimer,
                                liveTimers, pending, timeouts, registered, monitor,
                                nEvents, pairingStore>>
                 /\ \A j \in EventIds \ {i} : handlers'[j] = handlers[j]
                 /\ handlers'[i].pc \in {"dropped", "done", "dispatch"}]_vars

\* the pairing reply of the first event timed out; the second event, of a
\* listed sender, was recorded and dispatched and its reply was answered,
\* with the client open and registered
C28_Witness ==
    /\ handlers[1] = Dropped("dmPolicy")
    /\ outcome[0].kind = "timeout"
    /\ handlers[2].pc = "done"
    /\ effects[2].records = 1
    /\ effects[2].dispatches = 1
    /\ outcome[1] = Resolved
    /\ IsOpen /\ registered /\ ~stopped

\* C31: a send_message whose matched response has a status other than ok, or a
\* retcode other than 0, is reported to its caller as a failure; with status ok
\* and retcode 0 or no retcode it succeeds; and neither then, nor after a
\* timeout or a "not connected", is a request frame sent that no caller asked for.
C31_ResponseDecidesOutcome ==
    [][/\ (last'.op = "sendText" /\ last.op = "message") =>
             last'.out = IF /\ last.payload.value = "ok"
                            /\ last.payload.retcode \in {"absent", "0"}
                         THEN "ok" ELSE "failed"
       /\ (last'.op = "sendText" /\ last.op = "timeout") => last'.out = "failed"
       /\ (frames' # frames \/ actionCounter' # actionCounter) =>
             /\ last'.op = "send"
             /\ last.op = "-"
       /\ (last'.op = "send" /\ last'.out = "not_connected") => frames' = frames
      ]_vars

\* C32: the segments of an event confirm a mention of the bot exactly when
\* one of them is mention_all or is a mention whose user id (blanks around it
\* aside) is the resolved self id: the event's own self id, else the
\* account's; a mention of another user, and any mention when neither the
\* event nor the account gives a self id, confirms nothing.
C32_StructuredMention ==
    [][nEvents' = nEvents + 1 =>
         \A ev \in MentionEvents :
            LET h == handlers'[nEvents + 1]
                own == IF "self" \in DOMAIN ev THEN ev.self ELSE ""
                resolved == IF own \in {"bot", " bot "} THEN "bot"
                            ELSE IF own = "bot2" THEN "bot2"
                            ELSE IF accountSelfId = "bot" THEN "bot"
                            ELSE "none"
                named == CASE ev.mention \in {"self", "padded"} -> {"bot"}
                           [] ev.mention = "other" -> {"u2"}
                           [] ev.mention = "bot2" -> {"bot2"}
                           [] ev.mention = "other+self" -> {"u2", "bot"}
                           [] OTHER -> {}
            IN (OnEvent(ev) /\ h.pc = "readStore") =>
                  /\ h.signals.mentionedSelf
                       = (ev.mention = "all" \/ resolved \in named)
                  /\ h.signals.hasAnyMention = (ev.mention # "none")
                  /\ ev.user # resolved]_vars

\* under an account without a self id one message with a mention segment
\* confirmed no mention and another one did
C32_Witness ==
    /\ accountSelfId = ""
    /\ nEvents = 2
    /\ handlers[1].pc = "readStore"
    /\ handlers[1].sender = SelfId
    /\ handlers[1].signals = [hasAnyMention |-> TRUE, mentionedSelf |-> FALSE]
    /\ handlers[2].pc = "readStore"
    /\ handlers[2].signals = [hasAnyMention |-> TRUE, mentionedSelf |-> TRUE]

\* C33: echo tokens never repeat within one client: the action counter goes
\* up by one with every sendAction that passes the connectivity check and is
\* changed by nothing else (no close, reconnect, start or stop resets it), so
\* every token is put on at most one request frame and no token the counter
\* has not reached yet is in use.
C33_EchoesNeverRepeat ==
    /\ [](\A e \in Echoes :
            /\ frames[e] <= 1
            /\ e >= actionCounter =>
                  /\ frames[e] = 0
                  /\ pending[e] = NoSocket
                  /\ outcome[e] = Unsettled)
    /\ [][IF last = Quiet /\ last'.op = "send" /\ last'.out # "not_connected"
          THEN actionCounter' = actionCounter + 1
          ELSE actionCounter' = actionCounter]_vars

\* the first action was lost when its connection closed and the second, sent
\* after the reconnect, is in flight under another token
C33_Witness ==
    /\ outcome[0] = Err("closed", "")
    /\ frames[0] = 1
    /\ frames[1] = 1
    /\ pending[1] # NoSocket
    /\ pending[0] = NoSocket

\* C34: at most one socket of the client is connecting or open at any time,
\* whatever start(), stop(), socket events and reconnect timers came before,
\* start() called more than once included.
C34_OneSocketAtATime ==
    Cardinality({s \in SocketIds : sock[s] \in {"connecting", "open"}}) <= 1

\* C35: stopping one monitor never removes a registry entry another monitor
\* of the same account id put there: as long as the second monitor has not
\* been stopped, the entry its client was registered under stays its own
\* through every step of the first monitor that is not a new registration.
C35_StopLeavesOthersEntry ==
    [][(/\ secondMonitor.holds
        /\ secondMonitor'.pc = "waiting"
        /\ monitor # "idle" \/ monitor' = "idle")
       => /\ registered'
          /\ secondMonitor'.holds]_vars

\* C36: a direct-message event (detail type private, user or dm) that gets
\* as far as route resolution is routed under its sender's id: the
\* conversation id its handler holds is the sender's, whatever other ids the
\* event carries.
C36_DmRoutedBySender ==
    [][\A i \in EventIds :
          (/\ handlers[i].pc = "readStore"
           /\ handlers[i].detail \in {"private", "user", "dm"}
           /\ handlers'[i].pc = "record")
          => handlers[i].conversationId = handlers[i].sender]_vars

\* C37: accepted events reach session recording and reply dispatch in the
\* order their frames arrived: no event enters session recording after a
\* later one has, and none enters the dispatch while an earlier accepted one
\* has yet to.
C37_AcceptedInArrivalOrder ==
    [][\A i \in EventIds, j \in EventIds :
          i < j =>
            /\ (handlers[i].pc = "readStore" /\ handlers'[i].pc = "record")
                  => handlers[j].pc \notin {"record", "dispatch", "done"}
            /\ (handlers[j].pc = "record" /\ handlers'[j].pc = "dispatch")
                  => handlers[i].pc # "record"]_vars

====
